---- MODULE Spec2Model ----
(***************************************************************************)
(* Analysis / Job lifecycle, metadata store and publisher of               *)
(* burrbd/fire-severity-sa (package dnbr).                                 *)
(*                                                                         *)
(* Python values.  A str is a sequence of tokens (a token is a character   *)
(* or a literal chunk of text); "" is <<>>.  None and a key that is        *)
(* missing from a dict are two reserved one-token sequences, so that every *)
(* optional string has one type.  An f-string is the concatenation of its    *)
(* parts.  An optional object is a sequence of length 0 or 1.             *)
(***************************************************************************)
EXTENDS Integers, Sequences, FiniteSets, TLC

None == <<"<None>">>
Missing == <<"<missing>">>

\* an int held by a dict: its decimal digits behind a tag
PyInt(digits) == <<"<int>">> \o digits

\* bool(v) of an optional str or int
Truthy(v) == v # None /\ v # <<>> /\ v # PyInt(<<"0">>)

\* str(v) of a str or int
Str(v) == IF v # <<>> /\ Head(v) = "<int>" THEN Tail(v) ELSE v

\* a or b
Or(a, b) == IF Truthy(a) THEN a ELSE b

\* d.get(key) and d.get(key, default) on the value found under a key
Get(v) == IF v = Missing THEN None ELSE v
GetDefault(v, d) == IF v = Missing THEN d ELSE v

PENDING == <<"PENDING">>
RUNNING == <<"RUNNING">>
COMPLETED == <<"COMPLETED">>
FAILED == <<"FAILED">>
SUBMITTED == <<"SUBMITTED">>
Statuses == {PENDING, RUNNING, COMPLETED, FAILED, SUBMITTED}

(***************************************************************************)
(* dnbr/fire_metadata.py                                                   *)
(***************************************************************************)
DigitChars == <<"0", "1", "2", "3", "4", "5", "6", "7", "8", "9">>
UpperChars == <<"A", "B", "C", "D", "E", "F", "G", "H", "I", "J", "K", "L", "M",
                "N", "O", "P", "Q", "R", "S", "T", "U", "V", "W", "X", "Y", "Z">>
LowerChars == <<"a", "b", "c", "d", "e", "f", "g", "h", "i", "j", "k", "l", "m",
                "n", "o", "p", "q", "r", "s", "t", "u", "v", "w", "x", "y", "z">>

Range(s) == {s[i] : i \in DOMAIN s}
IsDigit(c) == c \in Range(DigitChars)
IsAlnum(c) == c \in Range(DigitChars) \cup Range(UpperChars) \cup Range(LowerChars)
DigitVal(c) == (CHOOSE i \in DOMAIN DigitChars : DigitChars[i] = c) - 1
LowerChar(c) ==
    IF c \in Range(UpperChars)
    THEN LowerChars[CHOOSE i \in DOMAIN UpperChars : UpperChars[i] = c]
    ELSE c

\* str.lower()
Lower(s) == [i \in DOMAIN s |-> LowerChar(s[i])]

\* every run of non-alphanumeric characters becomes one "_"
RECURSIVE SubNonAlnumRuns(_)
SubNonAlnumRuns(s) ==
    IF s = <<>> THEN <<>>
    ELSE IF IsAlnum(Head(s)) THEN <<Head(s)>> \o SubNonAlnumRuns(Tail(s))
    ELSE IF Len(s) > 1 /\ ~IsAlnum(s[2]) THEN SubNonAlnumRuns(Tail(s))
    ELSE <<"_">> \o SubNonAlnumRuns(Tail(s))

\* re.sub(r'[^a-zA-Z0-9]', '_', s): every non-alphanumeric character becomes "_"
SubNonAlnum(s) == [i \in DOMAIN s |-> IF IsAlnum(s[i]) THEN s[i] ELSE "_"]

\* re.sub(r'[^0-9]', '', s): keep the digits
RECURSIVE SubNonDigit(_)
SubNonDigit(s) ==
    IF s = <<>> THEN <<>>
    ELSE (IF IsDigit(Head(s)) THEN <<Head(s)>> ELSE <<>>) \o SubNonDigit(Tail(s))

\* the parts of s between "/" characters
RECURSIVE SplitSlash(_)
SplitSlash(s) ==
    IF \A i \in DOMAIN s : s[i] # "/" THEN <<s>>
    ELSE LET k == CHOOSE i \in DOMAIN s : s[i] = "/" /\ \A j \in 1..(i-1) : s[j] # "/"
         IN  <<SubSeq(s, 1, k-1)>> \o SplitSlash(SubSeq(s, k+1, Len(s)))

AllDigits(s) == \A i \in DOMAIN s : IsDigit(s[i])

RECURSIVE NumVal(_)
NumVal(s) == IF s = <<>> THEN 0 ELSE 10 * NumVal(SubSeq(s, 1, Len(s)-1)) + DigitVal(s[Len(s)])

IsLeap(y) == (y % 4 = 0 /\ y % 100 # 0) \/ y % 400 = 0
DaysInMonth(y, m) ==
    IF m = 2 THEN (IF IsLeap(y) THEN 29 ELSE 28)
    ELSE IF m \in {4, 6, 9, 11} THEN 30 ELSE 31

\* datetime.strptime(s, '%d/%m/%Y') succeeds: day and month of one or two
\* digits, a four-digit year, and a date that exists
StrptimeOK(s) ==
    LET p == SplitSlash(s) IN
    /\ Len(p) = 3
    /\ Len(p[1]) \in {1, 2} /\ AllDigits(p[1]) /\ NumVal(p[1]) \in 1..31
    /\ Len(p[2]) \in {1, 2} /\ AllDigits(p[2]) /\ NumVal(p[2]) \in 1..12
    /\ Len(p[3]) = 4 /\ AllDigits(p[3]) /\ NumVal(p[3]) >= 1
    /\ NumVal(p[1]) <= DaysInMonth(NumVal(p[3]), NumVal(p[2]))

Pad2(s) == IF Len(s) = 1 THEN <<"0">> \o s ELSE s

\* date_obj.strftime('%Y%m%d') of a parsed date
Strftime(s) == LET p == SplitSlash(s) IN p[3] \o Pad2(p[2]) \o Pad2(p[1])

\* the incident number with the date appended
generate_aoi_id_dated(incident_type, fire_date, raw_properties) ==
    LET date_str == IF StrptimeOK(fire_date) THEN Strftime(fire_date)
                    ELSE SubNonDigit(fire_date)
        incident_number == Get(raw_properties.INCIDENTNU)
    IN  IF Truthy(incident_number) THEN Str(incident_number) \o <<"_">> \o date_str
        ELSE SubNonAlnum(Lower(incident_type)) \o <<"_">> \o date_str

\* SAFireMetadata._generate_aoi_id
generate_aoi_id(incident_type, fire_date, raw_properties) ==
    LET date_str == IF StrptimeOK(fire_date) THEN Strftime(fire_date)
                    ELSE SubNonDigit(fire_date)
        incident_number == Get(raw_properties.INCIDENTNU)
    IN  IF Truthy(incident_number) THEN Str(incident_number)
        ELSE SubNonAlnum(Lower(incident_type)) \o <<"_">> \o date_str

\* SAFireMetadata.__init__
SAFireMetadata(incident_type, fire_date, raw_properties) ==
    [incident_type |-> incident_type,
     fire_date |-> fire_date,
     raw_properties |-> raw_properties,
     aoi_id |-> generate_aoi_id(incident_type, fire_date, raw_properties)]

\* to_dict leaving the raw properties out
to_dict_no_props(m) ==
    [aoi_id |-> m.aoi_id,
     fire_date |-> m.fire_date,
     provider |-> <<"sa_fire">>,
     incident_type |-> m.incident_type,
     raw_properties |-> [INCIDENTNU |-> Missing, other |-> Missing]]

\* SAFireMetadata.to_dict; a dict is a record whose absent keys hold Missing
to_dict(m) ==
    [aoi_id |-> m.aoi_id,
     fire_date |-> m.fire_date,
     provider |-> <<"sa_fire">>,
     incident_type |-> m.incident_type,
     raw_properties |-> m.raw_properties]

\* from_dict taking the incident type from the top level of the dict
from_dict_top_level(data) ==
    SAFireMetadata(<<"Unknown">>,
                   GetDefault(data.fire_date, <<"Unknown">>),
                   data.raw_properties)

\* SAFireMetadata.from_dict
from_dict(data) ==
    SAFireMetadata(GetDefault(data.incident_type, <<"Unknown">>),
                   GetDefault(data.fire_date, <<"Unknown">>),
                   data.raw_properties)

\* the dict {}
EmptyDict ==
    [aoi_id |-> Missing, fire_date |-> Missing, provider |-> Missing, incident_type |-> Missing,
     raw_properties |-> [INCIDENTNU |-> Missing, other |-> Missing]]

\* FireMetadata.from_json_data: the provider registry
KnownProvider(data) == Get(data.provider) = <<"sa_fire">>
from_json_data(data) == from_dict(data)

\* FireMetadata.generate_filename(kind)
generate_filename(m, kind) ==
    IF kind = "raster" THEN m.aoi_id \o <<"_dnbr.cog.tif">>
    ELSE IF kind = "vector" THEN m.aoi_id \o <<"_aoi.geojson">>
    ELSE m.aoi_id \o <<"_", kind>>

(***************************************************************************)
(* dnbr/analysis.py                                                        *)
(***************************************************************************)
\* datetime.utcnow().isoformat() at clock reading n, and the n-th ULID
isoformat(n) == <<"T", ToString(n)>>
ULID(n) == <<"ULID", ToString(n)>>

\* DNBRAnalysis.__init__; job_id and the source vector location are the
\* attributes publisher.py, job.py and job_service.py read and write
DNBRAnalysis(generator_type, fire_metadata, job_id, fresh_id, clock) ==
    [id |-> fresh_id,
     generator_type |-> generator_type,
     fire_metadata |-> fire_metadata,
     status |-> PENDING,
     created_at |-> isoformat(clock),
     raw_raster_path |-> None,
     source_vector_url |-> None,
     published_dnbr_raster_url |-> None,
     published_vector_url |-> None,
     job_id |-> job_id]

\* dnbr/gee_analysis.py: GEEAnalysis.__init__
GEEAnalysis(fresh_id, clock) ==
    [DNBRAnalysis(<<"unknown">>, <<>>, None, fresh_id, clock) EXCEPT !.status = SUBMITTED]

\* set_status with a transition table: a completed analysis stays completed
set_status_terminal(a, status) ==
    IF a.status = COMPLETED THEN a ELSE [a EXCEPT !.status = status]

\* DNBRAnalysis.set_status
set_status(a, status) == [a EXCEPT !.status = status]

\* DNBRAnalysis.get_fire_date / get_provider
get_fire_date(a) == IF a.fire_metadata # <<>> THEN a.fire_metadata[1].fire_date ELSE None
get_provider(a) == IF a.fire_metadata # <<>> THEN <<"sa_fire">> ELSE None

\* accessors of DNBRAnalysis used by publisher.py and job_service.py
get_aoi_id(a) == IF a.fire_metadata # <<>> THEN a.fire_metadata[1].aoi_id ELSE None
get_job_id(a) == a.job_id
raw_raster_url(a) == a.raw_raster_path
source_vector_url(a) == a.source_vector_url

\* json.dumps / json.loads of a dict of JSON-native values
json_dumps(d) == [json |-> d]
json_loads(s) == s.json

\* DNBRAnalysis.to_json
to_json(a) ==
    json_dumps(
    [id |-> a.id,
     generator_type |-> a.generator_type,
     fire_metadata |-> IF a.fire_metadata # <<>> THEN <<to_dict(a.fire_metadata[1])>> ELSE <<>>,
     status |-> a.status,
     created_at |-> a.created_at,
     raw_raster_path |-> a.raw_raster_path,
     published_dnbr_raster_url |-> a.published_dnbr_raster_url,
     published_vector_url |-> a.published_vector_url])

\* from_json raising only for a provider that is named
from_json_raises_named(json_str) ==
    LET data == json_loads(json_str)
    IN  /\ data.fire_metadata # <<>>
        /\ data.fire_metadata[1] # EmptyDict
        /\ Get(data.fire_metadata[1].provider) \notin {None, <<"sa_fire">>}

\* DNBRAnalysis.from_json raises ValueError (unknown provider)
from_json_raises(json_str) ==
    LET data == json_loads(json_str)
    IN  /\ data.fire_metadata # <<>>
        /\ data.fire_metadata[1] # EmptyDict
        /\ ~KnownProvider(data.fire_metadata[1])

\* DNBRAnalysis.from_json when it returns
from_json(json_str, fresh_id, clock) ==
    LET data == json_loads(json_str)
        fire_metadata == IF data.fire_metadata # <<>> /\ data.fire_metadata[1] # EmptyDict
                         THEN <<from_json_data(data.fire_metadata[1])>> ELSE <<>>
        analysis == DNBRAnalysis(GetDefault(data.generator_type, <<"unknown">>),
                                 fire_metadata, None, fresh_id, clock)
    IN  [analysis EXCEPT
           !.id = GetDefault(data.id, analysis.id),
           !.status = GetDefault(data.status, PENDING),
           !.created_at = GetDefault(data.created_at, analysis.created_at),
           !.raw_raster_path = Get(data.raw_raster_path),
           !.published_dnbr_raster_url = Get(data.published_dnbr_raster_url),
           !.published_vector_url = Get(data.published_vector_url)]

(***************************************************************************)
(* dnbr/analysis_service.py; the backend is a table of items under one     *)
(* string key, an item a record whose absent attributes hold Missing       *)
(***************************************************************************)
\* to_dynamodb_item writing the creation time as updated_at
to_dynamodb_item_stale(analysis, clock) ==
    [analysis_id |-> analysis.id,
     status |-> analysis.status,
     generator_type |-> analysis.generator_type,
     raw_raster_path |-> Or(analysis.raw_raster_path, <<>>),
     published_dnbr_raster_url |-> Or(analysis.published_dnbr_raster_url, <<>>),
     published_vector_url |-> Or(analysis.published_vector_url, <<>>),
     created_at |-> analysis.created_at,
     updated_at |-> analysis.created_at,
     fire_metadata |-> IF analysis.fire_metadata # <<>>
                       THEN <<json_dumps(to_dict(analysis.fire_metadata[1]))>> ELSE <<>>]

\* AnalysisService._to_dynamodb_item
to_dynamodb_item(analysis, clock) ==
    [analysis_id |-> analysis.id,
     status |-> analysis.status,
     generator_type |-> analysis.generator_type,
     raw_raster_path |-> Or(analysis.raw_raster_path, <<>>),
     published_dnbr_raster_url |-> Or(analysis.published_dnbr_raster_url, <<>>),
     published_vector_url |-> Or(analysis.published_vector_url, <<>>),
     created_at |-> analysis.created_at,
     updated_at |-> isoformat(clock),
     fire_metadata |-> IF analysis.fire_metadata # <<>>
                       THEN <<json_dumps(to_dict(analysis.fire_metadata[1]))>> ELSE <<>>]

\* the JSON AnalysisService._from_dynamodb_item builds from an item
item_json(item) ==
    json_dumps(
    [id |-> item.analysis_id,
     status |-> GetDefault(item.status, PENDING),
     generator_type |-> GetDefault(item.generator_type, <<"unknown">>),
     raw_raster_path |-> Get(item.raw_raster_path),
     published_dnbr_raster_url |-> Get(item.published_dnbr_raster_url),
     published_vector_url |-> Get(item.published_vector_url),
     created_at |-> GetDefault(item.created_at, <<>>),
     fire_metadata |-> IF item.fire_metadata # <<>>
                       THEN <<json_loads(item.fire_metadata[1])>> ELSE <<>>])

\* AnalysisService._from_dynamodb_item
from_dynamodb_item(item, fresh_id, clock) == from_json(item_json(item), fresh_id, clock)

\* dynamodb.put_item: the item replaces whatever is stored under its key
put_item(tbl, key, item) ==
    [k \in DOMAIN tbl \cup {key} |-> IF k = key THEN item ELSE tbl[k]]

\* the status written with put_item: the item is replaced by key, status, updated_at
status_update_put(tbl, analysis_id, status, clock) ==
    [analysis_id |-> analysis_id,
     status |-> status,
     generator_type |-> Missing,
     raw_raster_path |-> Missing,
     published_dnbr_raster_url |-> Missing,
     published_vector_url |-> Missing,
     created_at |-> Missing,
     updated_at |-> isoformat(clock),
     fire_metadata |-> <<>>]

\* the item update_analysis_status leaves under a key: SET #status, updated_at
\* on the stored item, or on a new item holding only the key
status_update(tbl, analysis_id, status, clock) ==
    LET old == IF analysis_id \in DOMAIN tbl THEN tbl[analysis_id]
               ELSE [analysis_id |-> analysis_id,
                     status |-> Missing,
                     generator_type |-> Missing,
                     raw_raster_path |-> Missing,
                     published_dnbr_raster_url |-> Missing,
                     published_vector_url |-> Missing,
                     created_at |-> Missing,
                     updated_at |-> Missing,
                     fire_metadata |-> <<>>]
    IN  [old EXCEPT !.status = status, !.updated_at = isoformat(clock)]

(***************************************************************************)
(* dnbr/job.py and dnbr/job_service.py; a job holds the handles of its     *)
(* analyses, a handle being an index of the heap objs                      *)
(***************************************************************************)
\* DNBRAnalysisJob.__init__
DNBRAnalysisJob(generator_type, fresh_id, clock) ==
    [id |-> fresh_id,
     generator_type |-> generator_type,
     created_at |-> isoformat(clock),
     analyses |-> <<>>]

\* one entry of analyses_data in JobService._to_dynamodb_item
analysis_data(analysis) ==
    [aoi_id |-> get_aoi_id(analysis),
     status |-> analysis.status,
     raw_raster_url |-> Or(raw_raster_url(analysis), <<>>),
     source_vector_url |-> Or(source_vector_url(analysis), <<>>),
     published_dnbr_raster_url |-> Or(analysis.published_dnbr_raster_url, <<>>),
     published_vector_url |-> Or(analysis.published_vector_url, <<>>),
     fire_date |-> Or(get_fire_date(analysis), <<>>),
     provider |-> Or(get_provider(analysis), <<>>)]

\* JobService._to_dynamodb_item
job_to_dynamodb_item(job, heap, clock) ==
    [job_id |-> job.id,
     generator_type |-> job.generator_type,
     created_at |-> job.created_at,
     updated_at |-> isoformat(clock),
     analysis_count |-> <<ToString(Len(job.analyses))>>,
     analyses |-> <<json_dumps([i \in DOMAIN job.analyses |-> analysis_data(heap[job.analyses[i]])])>>]

\* the list json.loads(item.get('analyses', {}).get('S', '[]')) yields
job_item_analyses(item) == IF item.analyses # <<>> THEN json_loads(item.analyses[1]) ELSE <<>>

\* the analysis JobService._from_dynamodb_item rebuilds from one entry
job_child(job, data, fresh_id, clock) ==
    LET analysis == DNBRAnalysis(job.generator_type, <<>>, job.id, fresh_id, clock)
    IN  [analysis EXCEPT
           !.status = GetDefault(data.status, PENDING),
           !.raw_raster_path = Get(data.raw_raster_url),
           !.source_vector_url = Get(data.source_vector_url),
           !.published_dnbr_raster_url = Get(data.published_dnbr_raster_url),
           !.published_vector_url = Get(data.published_vector_url),
           !.fire_metadata =
               IF Truthy(Get(data.fire_date)) /\ Truthy(Get(data.provider))
               THEN <<SAFireMetadata(<<"B", "u", "s", "h", "f", "i", "r", "e">>, data.fire_date,
                                     [INCIDENTNU |-> data.aoi_id, other |-> Missing])>>
               ELSE <<>>]

\* the job JobService._from_dynamodb_item rebuilds, its children to be placed
\* on the heap from handle base+1 on; the job takes ULID n, the children n+1..
job_from_dynamodb_item(item, base, n, clock) ==
    LET job == DNBRAnalysisJob(GetDefault(item.generator_type, <<"unknown">>), ULID(n), clock)
        job2 == [job EXCEPT !.id = item.job_id,
                            !.created_at = GetDefault(item.created_at, job.created_at)]
        data == job_item_analyses(item)
    IN  [job |-> [job2 EXCEPT !.analyses = [i \in DOMAIN data |-> base + i]],
         children |-> [i \in DOMAIN data |-> job_child(job2, data[i], ULID(n + i), clock)]]

\* update_job_status writing the status into the stored children
job_status_update_children(tbl, job_id, status, clock) ==
    LET old == IF job_id \in DOMAIN tbl THEN tbl[job_id]
               ELSE [job_id |-> job_id,
                     generator_type |-> Missing,
                     created_at |-> Missing,
                     updated_at |-> Missing,
                     analysis_count |-> Missing,
                     analyses |-> <<>>]
        data == job_item_analyses(old)
    IN  [old EXCEPT !.updated_at = isoformat(clock),
                    !.analyses = IF old.analyses = <<>> THEN <<>>
                                 ELSE <<json_dumps([i \in DOMAIN data |->
                                                      [data[i] EXCEPT !.status = status]])>>]

\* the item update_job_status leaves under a key: SET updated_at only
job_status_update(tbl, job_id, status, clock) ==
    LET old == IF job_id \in DOMAIN tbl THEN tbl[job_id]
               ELSE [job_id |-> job_id,
                     generator_type |-> Missing,
                     created_at |-> Missing,
                     updated_at |-> Missing,
                     analysis_count |-> Missing,
                     analyses |-> <<>>]
    IN  [old EXCEPT !.updated_at = isoformat(clock)]

\* DNBRAnalysisJob.add_analysis on the job and the heap
add_analysis_job(job, h) == [job EXCEPT !.analyses = Append(@, h)]
add_analysis_heap_rekey(job, heap, h) ==
    [heap EXCEPT ![h].job_id = job.id, ![h].id = job.id, ![h].created_at = job.created_at]
add_analysis_heap(job, heap, h) == [heap EXCEPT ![h].job_id = job.id]

\* DNBRAnalysisJob.get_completed_analyses / get_pending_analyses /
\* get_failed_analyses: the children, as references into the heap
WithStatus(job, heap, status) == SelectSeq(job.analyses, LAMBDA h : heap[h].status = status)
get_completed_analyses(job, heap) == WithStatus(job, heap, COMPLETED)
get_pending_analyses(job, heap) == WithStatus(job, heap, PENDING)
get_failed_analyses_reversed(job, heap) ==
    LET kept == WithStatus(job, heap, FAILED)
    IN  [i \in DOMAIN kept |-> kept[Len(kept) + 1 - i]]
get_failed_analyses(job, heap) == WithStatus(job, heap, FAILED)

\* DNBRAnalysisJob.is_complete / is_failed
is_complete_nonempty(job, heap) ==
    /\ job.analyses # <<>>
    /\ \A i \in DOMAIN job.analyses : heap[job.analyses[i]].status = COMPLETED
is_complete(job, heap) == \A i \in DOMAIN job.analyses : heap[job.analyses[i]].status = COMPLETED
is_failed_incomplete(job, heap) ==
    \E i \in DOMAIN job.analyses : heap[job.analyses[i]].status # COMPLETED
is_failed(job, heap) == \E i \in DOMAIN job.analyses : heap[job.analyses[i]].status = FAILED

(***************************************************************************)
(* State                                                                   *)
(***************************************************************************)
VARIABLES
    service,    \* the service object the caller has constructed
    objs,       \* heap of the DNBRAnalysis objects the generator made, by handle
    jobs,       \* heap of the DNBRAnalysisJob objects the generator made
    table,      \* the analyses table: analysis_id -> item
    jobTable,   \* the jobs table: job_id -> item
    now,        \* the clock datetime.utcnow() reads
    ulidCtr,    \* number of ULIDs handed out
    ret,        \* the caller's variable holding what the last service call returned
    dbLog,      \* the backend calls the last service call issued
    raced,      \* <<s>> once update_analysis_status(ret.obj's id, s) ran after the get
    lastStored, \* <<a>>: the table holds what store_analysis(a) wrote for a's id
    lastStoredJob, \* <<[job, heap]>>: the same for store_job
    fs,         \* the local paths that exist
    s3,         \* the bucket: key -> object
    pub,        \* the publish_analysis call of each caller: position, locals, outcome
    feature,    \* the source record fire metadata is built from
    conv,       \* what the last constructor or conversion returned
    backend     \* what the DynamoDB endpoint answers: available, or the error it gives

storeVars == <<service, objs, jobs, table, jobTable, now, ulidCtr, ret, dbLog, raced, lastStored,
               lastStoredJob>>
pubVars == <<fs, s3, pub>>
codecVars == <<feature, conv>>
vars == <<storeVars, pubVars, codecVars, backend>>

MaxClock == 1
MaxUlid == 7

RasterPath == <<"data/dummy_data/raw_dnbr.tif">>
VectorPath == <<"data/dummy_data/fire.geojson">>
NeverStoredId == <<"nonexistent-id">>

FMNumbered == SAFireMetadata(<<"B", "u", "s", "h", "f", "i", "r", "e">>,
                             <<"3", "0", "/", "1", "2", "/", "2", "0", "1", "9">>,
                             [INCIDENTNU |-> <<"2", "0", "1", "9", "1", "2", "0", "3", "6">>,
                              other |-> <<"data">>])
FMPlain == SAFireMetadata(<<"B", "u", "s", "h", " ", "F", "i", "r", "e", "!">>,
                          <<"3", "/", "1", "/", "2", "0", "2", "0">>,
                          [INCIDENTNU |-> Missing, other |-> <<"data">>])

EmptyFn == [x \in {} |-> <<>>]
Ret(op, kind, id) == [op |-> op, kind |-> kind, id |-> id, obj |-> <<>>, job |-> <<>>, children |-> <<>>]
NoRet == Ret("none", "none", None)
Call(name, key) == [call |-> name, key |-> key]

(***************************************************************************)
(* The metadata store: AnalysisService and JobService                      *)
(***************************************************************************)
Tick ==
    /\ now < MaxClock
    /\ now' = now + 1
    /\ UNCHANGED <<service, objs, jobs, table, jobTable, ulidCtr, ret, dbLog, raced, lastStored,
                   lastStoredJob>>
    /\ UNCHANGED pubVars
    /\ UNCHANGED codecVars
    /\ UNCHANGED backend

\* analysis.set_status(status) on an object of the heap
SetStatus(h, status) ==
    /\ objs' = [objs EXCEPT ![h] = set_status(objs[h], status)]
    /\ UNCHANGED <<service, jobs, table, jobTable, now, ulidCtr, ret, dbLog, raced, lastStored,
                   lastStoredJob>>
    /\ UNCHANGED pubVars
    /\ UNCHANGED codecVars
    /\ UNCHANGED backend

\* analysis.set_status(status) on the analysis get_analysis returned
SetStatusRet(status) ==
    /\ ret.obj # <<>>
    /\ ret' = [ret EXCEPT !.obj = <<set_status(ret.obj[1], status)>>]
    /\ UNCHANGED <<service, objs, jobs, table, jobTable, now, ulidCtr, dbLog, raced, lastStored,
                   lastStoredJob>>
    /\ UNCHANGED pubVars
    /\ UNCHANGED codecVars
    /\ UNCHANGED backend

\* AnalysisService.store_analysis(analysis)
store_analysis(analysis) ==
    LET item == to_dynamodb_item(analysis, now) IN
    /\ service = "AnalysisService"
    /\ table' = put_item(table, item.analysis_id, item)
    /\ dbLog' = <<Call("put_item", item.analysis_id)>>
    /\ lastStored' = <<analysis>>
    /\ UNCHANGED <<service, objs, jobs, jobTable, now, ulidCtr, lastStoredJob>>
    /\ UNCHANGED pubVars
    /\ UNCHANGED codecVars
    /\ UNCHANGED backend

\* store_analysis of an object of the heap
StoreAnalysis(h) ==
    /\ store_analysis(objs[h])
    /\ UNCHANGED <<ret, raced>>

\* store_analysis of the analysis get_analysis returned: the caller's
\* get, mutate, store sequence of scripts/publish_dnbr_analysis.py
StoreAnalysisRet ==
    /\ ret.obj # <<>>
    /\ store_analysis(ret.obj[1])
    /\ UNCHANGED <<ret, raced>>

\* get_analysis reading response['Item'] without testing for it
GetAnalysis_unchecked(analysis_id) ==
    /\ service = "AnalysisService"
    /\ dbLog' = <<Call("get_item", analysis_id)>>
    /\ ret' = IF analysis_id \notin DOMAIN table
              THEN Ret("get_analysis", "KeyError", analysis_id)
              ELSE IF from_json_raises(item_json(table[analysis_id]))
              THEN Ret("get_analysis", "ValueError", analysis_id)
              ELSE [Ret("get_analysis", "obj", analysis_id) EXCEPT
                      !.obj = <<from_dynamodb_item(table[analysis_id], ULID(ulidCtr + 1), now)>>]
    /\ raced' = <<>>
    /\ UNCHANGED <<service, objs, jobs, table, jobTable, now, ulidCtr, lastStored, lastStoredJob>>
    /\ UNCHANGED pubVars
    /\ UNCHANGED codecVars
    /\ UNCHANGED backend

\* AnalysisService.get_analysis; the ULID from_json draws is overwritten by
\* the stored id, which _from_dynamodb_item always supplies
GetAnalysis(analysis_id) ==
    /\ service = "AnalysisService"
    /\ dbLog' = <<Call("get_item", analysis_id)>>
    /\ ret' = IF analysis_id \notin DOMAIN table
              THEN Ret("get_analysis", "None", analysis_id)
              ELSE IF from_json_raises(item_json(table[analysis_id]))
              THEN Ret("get_analysis", "ValueError", analysis_id)
              ELSE [Ret("get_analysis", "obj", analysis_id) EXCEPT
                      !.obj = <<from_dynamodb_item(table[analysis_id], ULID(ulidCtr + 1), now)>>]
    /\ raced' = <<>>
    /\ UNCHANGED <<service, objs, jobs, table, jobTable, now, ulidCtr, lastStored, lastStoredJob>>
    /\ UNCHANGED pubVars
    /\ UNCHANGED codecVars
    /\ UNCHANGED backend

\* AnalysisService.update_analysis_status, called out of band
UpdateAnalysisStatus(analysis_id, status) ==
    /\ service = "AnalysisService"
    /\ table' = put_item(table, analysis_id, status_update(table, analysis_id, status, now))
    /\ dbLog' = <<Call("update_item", analysis_id)>>
    /\ raced' = IF ret.obj # <<>> /\ ret.obj[1].id = analysis_id THEN <<status>> ELSE raced
    /\ lastStored' = IF lastStored # <<>> /\ lastStored[1].id = analysis_id THEN <<>> ELSE lastStored
    /\ UNCHANGED <<service, objs, jobs, jobTable, now, ulidCtr, ret, lastStoredJob>>
    /\ UNCHANGED pubVars
    /\ UNCHANGED codecVars
    /\ UNCHANGED backend

\* JobService.store_job
StoreJob(j) ==
    LET item == job_to_dynamodb_item(jobs[j], objs, now) IN
    /\ service = "JobService"
    /\ jobTable' = put_item(jobTable, item.job_id, item)
    /\ dbLog' = <<Call("put_item", item.job_id)>>
    /\ lastStoredJob' = <<[job |-> jobs[j], heap |-> objs]>>
    /\ UNCHANGED <<service, objs, jobs, table, now, ulidCtr, ret, raced, lastStored>>
    /\ UNCHANGED pubVars
    /\ UNCHANGED codecVars
    /\ UNCHANGED backend

\* JobService.get_job
GetJob(job_id) ==
    /\ service = "JobService"
    /\ dbLog' = <<Call("get_item", job_id)>>
    /\ raced' = <<>>
    /\ IF job_id \notin DOMAIN jobTable
       THEN /\ ret' = Ret("get_job", "None", job_id)
            /\ ulidCtr' = ulidCtr
       ELSE LET r == job_from_dynamodb_item(jobTable[job_id], 0, ulidCtr + 1, now) IN
            /\ ulidCtr + 1 + Len(r.children) <= MaxUlid
            /\ ulidCtr' = ulidCtr + 1 + Len(r.children)
            /\ ret' = [Ret("get_job", "obj", job_id) EXCEPT !.job = <<r.job>>, !.children = r.children]
    /\ UNCHANGED <<service, objs, jobs, table, jobTable, now, lastStored, lastStoredJob>>
    /\ UNCHANGED pubVars
    /\ UNCHANGED codecVars
    /\ UNCHANGED backend

\* JobService.update_job_status
UpdateJobStatus(job_id, status) ==
    /\ service = "JobService"
    /\ jobTable' = put_item(jobTable, job_id, job_status_update(jobTable, job_id, status, now))
    /\ dbLog' = <<Call("update_item", job_id)>>
    /\ lastStoredJob' = IF lastStoredJob # <<>> /\ lastStoredJob[1].job.id = job_id
                        THEN <<>> ELSE lastStoredJob
    /\ UNCHANGED <<service, objs, jobs, table, now, ulidCtr, ret, raced, lastStored>>
    /\ UNCHANGED pubVars
    /\ UNCHANGED codecVars
    /\ UNCHANGED backend

\* the analyses a generator has produced before the store is used: one
\* stand-alone analysis in one of four fillings, and one job with one child
Profile(k) ==
    LET a == DNBRAnalysis(<<"dummy">>, IF k \in {2, 4} THEN <<FMNumbered>> ELSE <<>>,
                          None, ULID(1), 0)
    IN  [a EXCEPT !.raw_raster_path = IF k \in {3, 4} THEN RasterPath ELSE None,
                  !.source_vector_url = IF k \in {3, 4} THEN VectorPath ELSE None]

InitJob == add_analysis_job(DNBRAnalysisJob(<<"gee">>, ULID(3), 0), 2)
InitChild == DNBRAnalysis(<<"gee">>, <<FMPlain>>, None, ULID(2), 0)

StoreStatuses == {COMPLETED, FAILED}
AnalysisIds == {ULID(1), NeverStoredId}
JobIds == {ULID(3), NeverStoredId}

\* the analyses the caller of a service works on: the stand-alone ones are
\* stored through AnalysisService, those of a job inline through JobService
Stored(h) == (service = "AnalysisService") <=> (objs[h].job_id = None)

InitPubIdle ==
    /\ fs = {}
    /\ s3 = EmptyFn
    /\ pub = [c \in {} |-> <<>>]

\* no conversion under way
NoConv == [op |-> "none", kind |-> "none", meta |-> <<>>, an |-> <<>>]
NoFeature == [incident_type |-> <<>>, fire_date |-> <<>>,
              raw_properties |-> [INCIDENTNU |-> Missing, other |-> Missing]]
\* the table exists and the credentials are in place
Available == "available"

InitCodecIdle ==
    /\ feature = NoFeature
    /\ conv = NoConv

InitStore ==
    /\ service \in {"AnalysisService", "JobService"}
    /\ \E k \in 1..4 : objs = add_analysis_heap(InitJob, <<Profile(k), InitChild>>, 2)
    /\ jobs = <<InitJob>>
    /\ table = EmptyFn
    /\ jobTable = EmptyFn
    /\ now = 0
    /\ ulidCtr = 3
    /\ ret = NoRet
    /\ dbLog = <<>>
    /\ raced = <<>>
    /\ lastStored = <<>>
    /\ lastStoredJob = <<>>
    /\ InitPubIdle
    /\ InitCodecIdle
    /\ backend = Available

NextStore ==
    \/ Tick
    \/ \E h \in DOMAIN objs, s \in StoreStatuses : Stored(h) /\ SetStatus(h, s)
    \/ \E s \in StoreStatuses : SetStatusRet(s)
    \/ \E h \in DOMAIN objs : Stored(h) /\ StoreAnalysis(h)
    \/ StoreAnalysisRet
    \/ \E id \in AnalysisIds : GetAnalysis(id)
    \/ \E id \in AnalysisIds, s \in StoreStatuses : UpdateAnalysisStatus(id, s)
    \/ \E j \in DOMAIN jobs : StoreJob(j)
    \/ \E id \in JobIds : GetJob(id)
    \/ \E id \in JobIds, s \in StoreStatuses : UpdateJobStatus(id, s)

SpecStore == InitStore /\ [][NextStore]_vars

(***************************************************************************)
(* dnbr/publisher.py: S3AnalysisPublisher                                  *)
(***************************************************************************)
bucket_name == <<"test-bucket">>
Err(kind, msg) == [kind |-> kind, msg |-> msg, urls |-> <<>>]
NoResult == Err("none", "none")

\* validate without the status test
validate_any_status(analysis, files) ==
    IF ~Truthy(get_aoi_id(analysis)) THEN Err("ValueError", "aoi_id")
    ELSE IF ~Truthy(raw_raster_url(analysis)) THEN Err("ValueError", "raw_raster_url")
    ELSE IF ~Truthy(source_vector_url(analysis)) THEN Err("ValueError", "source_vector_url")
    ELSE IF raw_raster_url(analysis) \notin files THEN Err("FileNotFoundError", "raw_raster_url")
    ELSE IF source_vector_url(analysis) \notin files THEN Err("FileNotFoundError", "source_vector_url")
    ELSE Err("ok", "ok")

\* validate testing each file right after its location
validate_file_first(analysis, files) ==
    IF analysis.status # COMPLETED THEN Err("ValueError", "status")
    ELSE IF ~Truthy(get_aoi_id(analysis)) THEN Err("ValueError", "aoi_id")
    ELSE IF ~Truthy(raw_raster_url(analysis)) THEN Err("ValueError", "raw_raster_url")
    ELSE IF raw_raster_url(analysis) \notin files THEN Err("FileNotFoundError", "raw_raster_url")
    ELSE IF ~Truthy(source_vector_url(analysis)) THEN Err("ValueError", "source_vector_url")
    ELSE IF source_vector_url(analysis) \notin files THEN Err("FileNotFoundError", "source_vector_url")
    ELSE Err("ok", "ok")

\* the input validation of publish_analysis: the error it raises, or "ok"
validate(analysis, files) ==
    IF analysis.status # COMPLETED THEN Err("ValueError", "status")
    ELSE IF ~Truthy(get_aoi_id(analysis)) THEN Err("ValueError", "aoi_id")
    ELSE IF ~Truthy(raw_raster_url(analysis)) THEN Err("ValueError", "raw_raster_url")
    ELSE IF ~Truthy(source_vector_url(analysis)) THEN Err("ValueError", "source_vector_url")
    ELSE IF raw_raster_url(analysis) \notin files THEN Err("FileNotFoundError", "raw_raster_url")
    ELSE IF source_vector_url(analysis) \notin files THEN Err("FileNotFoundError", "source_vector_url")
    ELSE Err("ok", "ok")

\* the scope taken from the analysis alone
scope_id_own(analysis) == analysis.id

\* job_id = analysis.get_job_id() or analysis.get_id()
scope_id(analysis) == Or(get_job_id(analysis), analysis.id)

\* job_prefix = f"jobs/{job_id}/{aoi_id}" and the keys built on it
job_prefix(job_id, aoi_id) == <<"jobs/">> \o job_id \o <<"/">> \o aoi_id
raster_key(job_id, analysis) ==
    job_prefix(job_id, get_aoi_id(analysis)) \o <<"/">> \o generate_filename(analysis.fire_metadata[1], "raster")
\* the vector uploaded beside the directories of the areas of interest
vector_key_flat(job_id, analysis) ==
    <<"jobs/">> \o job_id \o <<"/">> \o generate_filename(analysis.fire_metadata[1], "vector")
vector_key(job_id, analysis) ==
    job_prefix(job_id, get_aoi_id(analysis)) \o <<"/">> \o generate_filename(analysis.fire_metadata[1], "vector")
stac_item_key(job_id, aoi_id) == <<"stac/items/">> \o job_id \o <<"/">> \o aoi_id \o <<".json">>
collection_key == <<"stac/collections/fires.json">>
s3_url(key) == <<"s3://">> \o bucket_name \o <<"/">> \o key

\* the objects written to the bucket
S3Object(kind, src, id, job_id, dnbr_href, aoi_href) ==
    [kind |-> kind, src |-> src, id |-> id, job_id |-> job_id,
     dnbr_href |-> dnbr_href, aoi_href |-> aoi_href]
FileObject(src) == S3Object("file", src, <<>>, <<>>, <<>>, <<>>)

\* a STAC item whose asset hrefs are paths within the bucket
create_stac_item_relative(analysis, rkey, vkey) ==
    LET aoi_id == get_aoi_id(analysis)
        job_id == scope_id(analysis)
    IN  S3Object("item", <<>>, aoi_id \o <<"_">> \o job_id, job_id,
                 <<"/">> \o rkey, <<"/">> \o vkey)

\* S3AnalysisPublisher._create_stac_item
create_stac_item(analysis, rkey, vkey) ==
    LET aoi_id == get_aoi_id(analysis)
        job_id == scope_id(analysis)
    IN  S3Object("item", <<>>, aoi_id \o <<"_">> \o job_id, job_id,
                 s3_url(rkey), s3_url(vkey))

\* the collection document of S3AnalysisPublisher._update_stac_collection
stac_collection(job_id) == S3Object("collection", <<>>, <<"fires">>, job_id, <<>>, <<>>)

Callers == {"c1", "c2"}
S3Call(name, key, job_id, ok) == [call |-> name, key |-> key, job_id |-> job_id, ok |-> ok]
Idle == [pc |-> "idle", h |-> 0, cog |-> None, job_id |-> None, aoi_id |-> None,
         raster_key |-> None, vector_key |-> None, calls |-> <<>>, result |-> NoResult]

Raise(c, kind, msg) == [pub EXCEPT ![c].pc = "done", ![c].result = Err(kind, msg)]
Logged(c, call) == [pub EXCEPT ![c].calls = Append(@, call)]

\* publish_analysis(analysis), lines 67-107: validation, COG generation, keys
PublishBegin(c, h) ==
    LET analysis == objs[h]
        v == validate(analysis, fs)
        call == [Idle EXCEPT !.h = h]
    IN
    /\ pub[c].pc \in {"idle", "done"}
    /\ \/ /\ v.kind # "ok"
          /\ pub' = [pub EXCEPT ![c] = [call EXCEPT !.pc = "done", !.result = v]]
       \/ /\ v.kind = "ok"
          /\ \/ pub' = [pub EXCEPT ![c] = [call EXCEPT !.pc = "done",
                                             !.result = Err("RuntimeError", "cog")]]
             \/ pub' = [pub EXCEPT ![c] =
                          [call EXCEPT !.pc = "raster",
                                       !.cog = <<"/tmp/", c, ".tif">>,
                                       !.job_id = scope_id(analysis),
                                       !.aoi_id = get_aoi_id(analysis),
                                       !.raster_key = raster_key(scope_id(analysis), analysis),
                                       !.vector_key = vector_key(scope_id(analysis), analysis)]]
    /\ UNCHANGED <<fs, s3>>
    /\ UNCHANGED storeVars
    /\ UNCHANGED codecVars
    /\ UNCHANGED backend

\* a write whose failure is swallowed
S3Write_swallow(c, name, key, object, nextpc) ==
    \/ /\ s3' = put_item(s3, key, object)
       /\ pub' = [Logged(c, S3Call(name, key, object.job_id, TRUE)) EXCEPT ![c].pc = nextpc]
    \/ /\ s3' = s3
       /\ pub' = [Logged(c, S3Call(name, key, object.job_id, FALSE)) EXCEPT ![c].pc = nextpc]

\* one write to the bucket by caller c: it succeeds, or raises and the
\* except clause turns that into RuntimeError
S3Write(c, name, key, object, nextpc) ==
    \/ /\ s3' = put_item(s3, key, object)
       /\ pub' = [Logged(c, S3Call(name, key, object.job_id, TRUE)) EXCEPT ![c].pc = nextpc]
    \/ /\ s3' = s3
       /\ pub' = [Logged(c, S3Call(name, key, object.job_id, FALSE)) EXCEPT
                    ![c].pc = "done", ![c].result = Err("RuntimeError", name)]

\* the raster uploaded under the name of its temporary file
UploadRaster_tempname(c) ==
    /\ pub[c].pc = "raster"
    /\ S3Write(c, "upload_file",
               job_prefix(pub[c].job_id, pub[c].aoi_id) \o pub[c].cog,
               FileObject(<<"cog(">> \o raw_raster_url(objs[pub[c].h]) \o <<")">>), "vector")
    /\ UNCHANGED fs
    /\ UNCHANGED storeVars
    /\ UNCHANGED codecVars
    /\ UNCHANGED backend

\* line 109: upload_file(cog_path, bucket, raster_key)
UploadRaster(c) ==
    /\ pub[c].pc = "raster"
    /\ S3Write(c, "upload_file", pub[c].raster_key,
               FileObject(<<"cog(">> \o raw_raster_url(objs[pub[c].h]) \o <<")">>), "vector")
    /\ UNCHANGED fs
    /\ UNCHANGED storeVars
    /\ UNCHANGED codecVars
    /\ UNCHANGED backend

\* line 110: upload_file(analysis.source_vector_url, bucket, vector_key)
UploadVector(c) ==
    /\ pub[c].pc = "vector"
    /\ S3Write(c, "upload_file", pub[c].vector_key,
               FileObject(source_vector_url(objs[pub[c].h])), "item")
    /\ UNCHANGED fs
    /\ UNCHANGED storeVars
    /\ UNCHANGED codecVars
    /\ UNCHANGED backend

\* lines 113-122: build the STAC item (reading the vector file may raise) and put it
PutStacItem(c) ==
    /\ pub[c].pc = "item"
    /\ \/ /\ pub' = Raise(c, "RuntimeError", "read_file")
          /\ s3' = s3
       \/ S3Write(c, "put_object", stac_item_key(pub[c].job_id, pub[c].aoi_id),
                  create_stac_item(objs[pub[c].h], pub[c].raster_key, pub[c].vector_key),
                  "collection")
    /\ UNCHANGED fs
    /\ UNCHANGED storeVars
    /\ UNCHANGED codecVars
    /\ UNCHANGED backend

\* the collection written only when the bucket holds none yet
UpdateStacCollection_keep(c) ==
    /\ pub[c].pc = "collection"
    /\ S3Write(c, "put_object", collection_key,
               IF collection_key \in DOMAIN s3 THEN s3[collection_key]
               ELSE stac_collection(pub[c].job_id), "finish")
    /\ UNCHANGED fs
    /\ UNCHANGED storeVars
    /\ UNCHANGED codecVars
    /\ UNCHANGED backend

\* line 125: _update_stac_collection(job_id)
UpdateStacCollection(c) ==
    /\ pub[c].pc = "collection"
    /\ S3Write(c, "put_object", collection_key, stac_collection(pub[c].job_id), "finish")
    /\ UNCHANGED fs
    /\ UNCHANGED storeVars
    /\ UNCHANGED codecVars
    /\ UNCHANGED backend

\* the publisher storing the analysis itself once the URLs are recorded
Finish_persist(c) ==
    LET h == pub[c].h
        urls == <<s3_url(pub[c].raster_key), s3_url(pub[c].vector_key)>>
    IN
    /\ pub[c].pc = "finish"
    /\ objs' = [objs EXCEPT ![h].published_dnbr_raster_url = urls[1],
                            ![h].published_vector_url = urls[2]]
    /\ table' = put_item(table, objs[h].id, to_dynamodb_item(objs'[h], now))
    /\ \/ pub' = Raise(c, "RuntimeError", "unlink")
       \/ pub' = [pub EXCEPT ![c].pc = "done",
                             ![c].result = [kind |-> "urls", msg |-> "ok", urls |-> urls]]
    /\ UNCHANGED <<fs, s3>>
    /\ UNCHANGED <<service, jobs, jobTable, now, ulidCtr, ret, dbLog, raced, lastStored,
                   lastStoredJob>>
    /\ UNCHANGED codecVars
    /\ UNCHANGED backend

\* lines 128-140: record the URLs on the analysis, unlink the COG (which may
\* raise inside the try), return the URLs
Finish(c) ==
    LET h == pub[c].h
        urls == <<s3_url(pub[c].raster_key), s3_url(pub[c].vector_key)>>
    IN
    /\ pub[c].pc = "finish"
    /\ objs' = [objs EXCEPT ![h].published_dnbr_raster_url = urls[1],
                            ![h].published_vector_url = urls[2]]
    /\ \/ pub' = Raise(c, "RuntimeError", "unlink")
       \/ pub' = [pub EXCEPT ![c].pc = "done",
                             ![c].result = [kind |-> "urls", msg |-> "ok", urls |-> urls]]
    /\ UNCHANGED <<fs, s3>>
    /\ UNCHANGED <<service, jobs, table, jobTable, now, ulidCtr, ret, dbLog, raced, lastStored,
                   lastStoredJob>>
    /\ UNCHANGED codecVars
    /\ UNCHANGED backend

\* the analyses handed to the publisher: the first created on its own, in any
\* filling, the second complete and owned by a job
PubAnalysis(fm, raster, vector, job_id, n) ==
    [DNBRAnalysis(<<"dummy">>, fm, job_id, ULID(n), 0) EXCEPT
        !.raw_raster_path = raster, !.source_vector_url = vector]


InitPublish ==
    /\ service = "none"
    /\ \E fm \in {<<>>, <<FMPlain>>},
          raster \in {None, RasterPath},
          vector \in {None, VectorPath} :
          objs = <<PubAnalysis(fm, raster, vector, None, 1),
                   PubAnalysis(<<FMNumbered>>, RasterPath, VectorPath, <<"JOB456">>, 2)>>
    /\ jobs = <<>>
    /\ table = EmptyFn
    /\ jobTable = EmptyFn
    /\ now = 0
    /\ ulidCtr = 2
    /\ ret = NoRet
    /\ dbLog = <<>>
    /\ raced = <<>>
    /\ lastStored = <<>>
    /\ lastStoredJob = <<>>
    /\ fs \in SUBSET {RasterPath, VectorPath}
    /\ s3 = EmptyFn
    /\ pub = [c \in Callers |-> Idle]
    /\ InitCodecIdle
    /\ backend = Available

NextPublish ==
    \/ \E h \in DOMAIN objs, s \in {COMPLETED, FAILED} : SetStatus(h, s)
    \/ \E c \in Callers, h \in DOMAIN objs : PublishBegin(c, h)
    \/ \E c \in Callers : UploadRaster(c)
    \/ \E c \in Callers : UploadVector(c)
    \/ \E c \in Callers : PutStacItem(c)
    \/ \E c \in Callers : UpdateStacCollection(c)
    \/ \E c \in Callers : Finish(c)

SpecPublish == InitPublish /\ [][NextPublish]_vars

(***************************************************************************)
(* The caller of scripts/publish_dnbr_analysis.py: one completed analysis, *)
(* published and stored through AnalysisService                            *)
(***************************************************************************)
InitPublishStore ==
    /\ service = "AnalysisService"
    /\ \E fm \in {FMNumbered, FMPlain}, job_id \in {None, <<"JOB123">>} :
          objs = <<set_status(PubAnalysis(<<fm>>, RasterPath, VectorPath, job_id, 1), COMPLETED)>>
    /\ jobs = <<>>
    /\ table = EmptyFn
    /\ jobTable = EmptyFn
    /\ now = 0
    /\ ulidCtr = 1
    /\ ret = NoRet
    /\ dbLog = <<>>
    /\ raced = <<>>
    /\ lastStored = <<>>
    /\ lastStoredJob = <<>>
    /\ fs = {RasterPath, VectorPath}
    /\ s3 = EmptyFn
    /\ pub = [c \in Callers |-> Idle]
    /\ InitCodecIdle
    /\ backend = Available

NextPublishStore ==
    \/ Tick
    \/ \E h \in DOMAIN objs : StoreAnalysis(h)
    \/ \E c \in Callers, h \in DOMAIN objs : PublishBegin(c, h)
    \/ \E c \in Callers : UploadRaster(c)
    \/ \E c \in Callers : UploadVector(c)
    \/ \E c \in Callers : PutStacItem(c)
    \/ \E c \in Callers : UpdateStacCollection(c)
    \/ \E c \in Callers : Finish(c)

SpecPublishStore == InitPublishStore /\ [][NextPublishStore]_vars

(***************************************************************************)
(* Constructors and conversions of fire metadata and analyses, applied to  *)
(* source records of every kind                                            *)
(***************************************************************************)
IncidentTypes ==
    { <<"B", "u", "s", "h", "f", "i", "r", "e">>,
      <<"B", "u", "s", "h", " ", "F", "i", "r", "e", "!">>,
      <<"B", "u", "s", "h", " ", " ", "F", "i", "r", "e">>,
      <<>> }
FireDates ==
    { <<"3", "0", "/", "1", "2", "/", "2", "0", "1", "9">>,
      <<"3", "/", "1", "/", "2", "0", "2", "0">>,
      <<"i", "n", "v", "a", "l", "i", "d", "-", "d", "a", "t", "e">>,
      <<"2", "0", "1", "9", "-", "1", "2", "-", "3", "0">>,
      <<"3", "1", "/", "0", "2", "/", "2", "0", "2", "0">> }
IncidentNumbers ==
    { Missing, None, <<>>, <<"2", "0", "1", "9", "1", "2", "0", "3", "6">>,
      PyInt(<<"1", "2", "3", "4", "5">>), PyInt(<<"0">>) }

Conv(op, kind, meta, an) == [op |-> op, kind |-> kind, meta |-> meta, an |-> an]

\* SAFireMetadata(incident_type, fire_date, raw_properties) on the source record
CreateMetadata ==
    /\ conv' = Conv("SAFireMetadata", "ok",
                    <<SAFireMetadata(feature.incident_type, feature.fire_date,
                                     feature.raw_properties)>>, <<>>)
    /\ UNCHANGED feature
    /\ UNCHANGED backend
    /\ UNCHANGED storeVars
    /\ UNCHANGED pubVars

\* the locations a generator and a publisher leave on an analysis
Location(field) == <<"location of ", field>>
Located(a, fields) ==
    [a EXCEPT
       !.raw_raster_path = IF "raw_raster_path" \in fields THEN Location("raw_raster_path") ELSE @,
       !.source_vector_url = IF "source_vector_url" \in fields THEN Location("source_vector_url") ELSE @,
       !.published_dnbr_raster_url =
           IF "published_dnbr_raster_url" \in fields THEN Location("published_dnbr_raster_url") ELSE @,
       !.published_vector_url =
           IF "published_vector_url" \in fields THEN Location("published_vector_url") ELSE @]
LocationFields ==
    {"raw_raster_path", "source_vector_url", "published_dnbr_raster_url", "published_vector_url"}

\* DNBRAnalysis(generator_type, fire_metadata), with or without the metadata
\* just built, then set_status and the locations in fields
CreateAnalysis(with_metadata, status, fields) ==
    LET a == DNBRAnalysis(<<"dummy">>, IF with_metadata THEN conv.meta ELSE <<>>,
                          None, ULID(ulidCtr), 0)
    IN
    /\ conv.op = "SAFireMetadata"
    /\ conv' = Conv("DNBRAnalysis", "ok", a.fire_metadata, <<Located(set_status(a, status), fields)>>)
    /\ UNCHANGED feature
    /\ UNCHANGED backend
    /\ UNCHANGED storeVars
    /\ UNCHANGED pubVars

\* GEEAnalysis()
CreateGEEAnalysis ==
    /\ conv' = Conv("GEEAnalysis", "ok", <<>>, <<GEEAnalysis(ULID(ulidCtr), 0)>>)
    /\ UNCHANGED feature
    /\ UNCHANGED backend
    /\ UNCHANGED storeVars
    /\ UNCHANGED pubVars

\* SAFireMetadata.from_dict(m.to_dict())
DictRoundTrip ==
    /\ conv.meta # <<>>
    /\ conv' = Conv("from_dict", "ok", <<from_dict(to_dict(conv.meta[1]))>>, <<>>)
    /\ UNCHANGED feature
    /\ UNCHANGED backend
    /\ UNCHANGED storeVars
    /\ UNCHANGED pubVars

\* DNBRAnalysis.from_json(json_str): the analysis, or ValueError
Deserialized(op, json_str) ==
    IF from_json_raises(json_str)
    THEN Conv(op, "ValueError", <<>>, <<>>)
    ELSE Conv(op, "ok", from_json(json_str, ULID(ulidCtr + 1), now).fire_metadata,
              <<from_json(json_str, ULID(ulidCtr + 1), now)>>)

\* DNBRAnalysis.from_json(a.to_json())
JsonRoundTrip ==
    /\ conv.an # <<>>
    /\ conv' = Deserialized("from_json", to_json(conv.an[1]))
    /\ UNCHANGED feature
    /\ UNCHANGED backend
    /\ UNCHANGED storeVars
    /\ UNCHANGED pubVars

\* what AnalysisService makes of a on the way into the table and out again
StoreGetRoundTrip ==
    /\ conv.an # <<>>
    /\ conv' = Deserialized("get_analysis", item_json(to_dynamodb_item(conv.an[1], now)))
    /\ UNCHANGED feature
    /\ UNCHANGED backend
    /\ UNCHANGED storeVars
    /\ UNCHANGED pubVars

\* records as another writer may have left them: the JSON of a with the
\* provider of its fire metadata renamed, null or absent, with the fire
\* metadata emptied, or with none
WithProvider(a, provider) ==
    json_dumps([json_loads(to_json(a)) EXCEPT !.fire_metadata = <<[@[1] EXCEPT !.provider = provider]>>])
ForeignProviders == {<<"unknown_provider">>, None, Missing}
ForeignRecords(a) ==
    IF a.fire_metadata = <<>> THEN {to_json(a)}
    ELSE {WithProvider(a, provider) : provider \in ForeignProviders}
         \cup {json_dumps([json_loads(to_json(a)) EXCEPT !.fire_metadata = <<EmptyDict>>])}

\* DNBRAnalysis.from_json(record)
Deserialize(record) ==
    /\ conv' = Deserialized("from_json_record", record)
    /\ UNCHANGED feature
    /\ UNCHANGED backend
    /\ UNCHANGED storeVars
    /\ UNCHANGED pubVars

InitCodec ==
    /\ service = "none"
    /\ objs = <<>>
    /\ jobs = <<>>
    /\ table = EmptyFn
    /\ jobTable = EmptyFn
    /\ now = 1
    /\ ulidCtr = 1
    /\ ret = NoRet
    /\ dbLog = <<>>
    /\ raced = <<>>
    /\ lastStored = <<>>
    /\ lastStoredJob = <<>>
    /\ InitPubIdle
    /\ \E incident_type \in IncidentTypes, fire_date \in FireDates, number \in IncidentNumbers :
          feature = [incident_type |-> incident_type, fire_date |-> fire_date,
                     raw_properties |-> [INCIDENTNU |-> number, other |-> <<"data">>]]
    /\ conv = NoConv
    /\ backend = Available

NextCodec ==
    \/ CreateMetadata
    \/ \E with_metadata \in BOOLEAN, status \in {PENDING, COMPLETED}, fields \in SUBSET LocationFields :
          CreateAnalysis(with_metadata, status, fields)
    \/ CreateGEEAnalysis
    \/ DictRoundTrip
    \/ JsonRoundTrip
    \/ StoreGetRoundTrip
    \/ \E record \in (IF conv.an # <<>> THEN ForeignRecords(conv.an[1]) ELSE {}) : Deserialize(record)

SpecCodec == InitCodec /\ [][NextCodec]_vars

(***************************************************************************)
(* The life of analyses: constructed, added to a job, moved through their  *)
(* statuses, published and stored                                          *)
(***************************************************************************)
Handles == {1, 2}
LifeStatuses == {PENDING, RUNNING, COMPLETED, FAILED}

\* DNBRAnalysis(generator_type, fire_metadata), then the locations a
\* generator leaves on it
NewAnalysis ==
    /\ Len(objs) + 1 \in Handles
    /\ ulidCtr < MaxUlid
    /\ ulidCtr' = ulidCtr + 1
    /\ objs' = Append(objs, [DNBRAnalysis(<<"dummy">>, <<FMNumbered>>, None, ULID(ulidCtr + 1), now)
                               EXCEPT !.raw_raster_path = RasterPath,
                                      !.source_vector_url = VectorPath])
    /\ UNCHANGED <<service, jobs, table, jobTable, now, ret, dbLog, raced, lastStored, lastStoredJob>>
    /\ UNCHANGED pubVars
    /\ UNCHANGED codecVars
    /\ UNCHANGED backend

\* job.add_analysis(analysis)
AddAnalysis(j, h) ==
    /\ Len(jobs[j].analyses) + 1 \in Handles
    /\ jobs' = [jobs EXCEPT ![j] = add_analysis_job(jobs[j], h)]
    /\ objs' = add_analysis_heap(jobs[j], objs, h)
    /\ UNCHANGED <<service, table, jobTable, now, ulidCtr, ret, dbLog, raced, lastStored,
                   lastStoredJob>>
    /\ UNCHANGED pubVars
    /\ UNCHANGED codecVars
    /\ UNCHANGED backend

\* scripts/publish_dnbr_analysis.py runs with the metadata store; the
\* publisher alone (tests/test_publisher.py) runs without one
Publishing == service = "none"
\* the analysis the publisher is handed: the first one constructed
Published == {h \in DOMAIN objs : objs[h].id = ULID(2)}

InitLifecycle ==
    /\ service \in {"AnalysisService", "none"}
    /\ objs = <<>>
    /\ jobs = <<DNBRAnalysisJob(<<"dummy">>, ULID(1), 0)>>
    /\ table = EmptyFn
    /\ jobTable = EmptyFn
    /\ now = 0
    /\ ulidCtr = 1
    /\ ret = NoRet
    /\ dbLog = <<>>
    /\ raced = <<>>
    /\ lastStored = <<>>
    /\ lastStoredJob = <<>>
    /\ fs = {RasterPath, VectorPath}
    /\ s3 = EmptyFn
    /\ pub = [c \in Callers |-> Idle]
    /\ InitCodecIdle
    /\ backend = Available

NextLifecycle ==
    \/ Tick
    \/ NewAnalysis
    \/ \E j \in DOMAIN jobs, h \in DOMAIN objs : AddAnalysis(j, h)
    \/ \E h \in DOMAIN objs, s \in LifeStatuses : SetStatus(h, s)
    \/ \E h \in DOMAIN objs : StoreAnalysis(h)
    \/ \E h \in DOMAIN objs : UpdateAnalysisStatus(objs[h].id, COMPLETED)
    \/ \E h \in Published : Publishing /\ PublishBegin("c1", h)
    \/ UploadRaster("c1")
    \/ UploadVector("c1")
    \/ PutStacItem("c1")
    \/ UpdateStacCollection("c1")
    \/ Finish("c1")

SpecLifecycle == InitLifecycle /\ [][NextLifecycle]_vars

(***************************************************************************)
(* Jobs and their children: two jobs, analyses added to them and moved     *)
(* through their statuses, and the job's views asked at any point          *)
(***************************************************************************)
Returned(op, kind, job, children) == [Ret(op, kind, job.id) EXCEPT !.children = children]

\* job.get_completed_analyses() / get_pending_analyses() / get_failed_analyses()
GetCompletedAnalyses(j) ==
    /\ ret' = Returned("get_completed_analyses", "list", jobs[j], get_completed_analyses(jobs[j], objs))
    /\ UNCHANGED <<service, objs, jobs, table, jobTable, now, ulidCtr, dbLog, raced, lastStored,
                   lastStoredJob>>
    /\ UNCHANGED pubVars
    /\ UNCHANGED codecVars
    /\ UNCHANGED backend
GetPendingAnalyses(j) ==
    /\ ret' = Returned("get_pending_analyses", "list", jobs[j], get_pending_analyses(jobs[j], objs))
    /\ UNCHANGED <<service, objs, jobs, table, jobTable, now, ulidCtr, dbLog, raced, lastStored,
                   lastStoredJob>>
    /\ UNCHANGED pubVars
    /\ UNCHANGED codecVars
    /\ UNCHANGED backend
GetFailedAnalyses(j) ==
    /\ ret' = Returned("get_failed_analyses", "list", jobs[j], get_failed_analyses(jobs[j], objs))
    /\ UNCHANGED <<service, objs, jobs, table, jobTable, now, ulidCtr, dbLog, raced, lastStored,
                   lastStoredJob>>
    /\ UNCHANGED pubVars
    /\ UNCHANGED codecVars
    /\ UNCHANGED backend

\* job.is_complete() / job.is_failed()
IsComplete(j) ==
    /\ ret' = Returned("is_complete", IF is_complete(jobs[j], objs) THEN "True" ELSE "False", jobs[j], <<>>)
    /\ UNCHANGED <<service, objs, jobs, table, jobTable, now, ulidCtr, dbLog, raced, lastStored,
                   lastStoredJob>>
    /\ UNCHANGED pubVars
    /\ UNCHANGED codecVars
    /\ UNCHANGED backend
IsFailed(j) ==
    /\ ret' = Returned("is_failed", IF is_failed(jobs[j], objs) THEN "True" ELSE "False", jobs[j], <<>>)
    /\ UNCHANGED <<service, objs, jobs, table, jobTable, now, ulidCtr, dbLog, raced, lastStored,
                   lastStoredJob>>
    /\ UNCHANGED pubVars
    /\ UNCHANGED codecVars
    /\ UNCHANGED backend

InitJobs ==
    /\ service = "none"
    /\ objs = <<>>
    /\ jobs = <<DNBRAnalysisJob(<<"dummy">>, ULID(1), 0), DNBRAnalysisJob(<<"gee">>, ULID(2), 0)>>
    /\ table = EmptyFn
    /\ jobTable = EmptyFn
    /\ now = 0
    /\ ulidCtr = 2
    /\ ret = NoRet
    /\ dbLog = <<>>
    /\ raced = <<>>
    /\ lastStored = <<>>
    /\ lastStoredJob = <<>>
    /\ InitPubIdle
    /\ InitCodecIdle
    /\ backend = Available

NextJobs ==
    \/ NewAnalysis
    \/ \E j \in DOMAIN jobs, h \in DOMAIN objs : AddAnalysis(j, h)
    \/ \E h \in DOMAIN objs, s \in LifeStatuses : SetStatus(h, s)
    \/ \E j \in DOMAIN jobs : GetCompletedAnalyses(j)
    \/ \E j \in DOMAIN jobs : GetPendingAnalyses(j)
    \/ \E j \in DOMAIN jobs : GetFailedAnalyses(j)
    \/ \E j \in DOMAIN jobs : IsComplete(j)
    \/ \E j \in DOMAIN jobs : IsFailed(j)

SpecJobs == InitJobs /\ [][NextJobs]_vars

(***************************************************************************)
(* The service factories: create_analysis_service and create_job_service   *)
(* against an endpoint that is available or not, and the calls their       *)
(* callers go on to make                                                   *)
(***************************************************************************)
NoCredentials == "NoCredentialsError"
TableNotFound == "ResourceNotFoundException"
Backends == {Available, NoCredentials, TableNotFound, "AccessDeniedException"}

\* a factory that constructs the service without asking the endpoint
describe_table_unasked(endpoint) == Available

\* dynamodb.describe_table(TableName=table_name): passes, or raises what the
\* endpoint gives
describe_table(endpoint) == endpoint

\* what create_analysis_service raises for a failed describe_table
analysis_service_error(raised) ==
    IF raised \in {NoCredentials, TableNotFound} THEN "ValueError" ELSE "ClientError"

\* what create_job_service raises for a failed describe_table
job_service_error(raised) == "RuntimeError"

\* create_analysis_service()
CreateAnalysisService ==
    /\ service = "none"
    /\ IF describe_table(backend) = Available
       THEN /\ service' = "AnalysisService"
            /\ ret' = Ret("create_analysis_service", "service", None)
       ELSE /\ service' = service
            /\ ret' = Ret("create_analysis_service", analysis_service_error(describe_table(backend)), None)
    /\ dbLog' = <<Call("describe_table", None)>>
    /\ UNCHANGED <<objs, jobs, table, jobTable, now, ulidCtr, raced, lastStored, lastStoredJob>>
    /\ UNCHANGED pubVars
    /\ UNCHANGED codecVars
    /\ UNCHANGED backend

\* create_job_service()
CreateJobService ==
    /\ service = "none"
    /\ IF describe_table(backend) = Available
       THEN /\ service' = "JobService"
            /\ ret' = Ret("create_job_service", "service", None)
       ELSE /\ service' = service
            /\ ret' = Ret("create_job_service", job_service_error(describe_table(backend)), None)
    /\ dbLog' = <<Call("describe_table", None)>>
    /\ UNCHANGED <<objs, jobs, table, jobTable, now, ulidCtr, raced, lastStored, lastStoredJob>>
    /\ UNCHANGED pubVars
    /\ UNCHANGED codecVars
    /\ UNCHANGED backend

InitFactory ==
    /\ service = "none"
    /\ objs = add_analysis_heap(InitJob, <<Profile(4), InitChild>>, 2)
    /\ jobs = <<InitJob>>
    /\ table = EmptyFn
    /\ jobTable = EmptyFn
    /\ now = 0
    /\ ulidCtr = 3
    /\ ret = NoRet
    /\ dbLog = <<>>
    /\ raced = <<>>
    /\ lastStored = <<>>
    /\ lastStoredJob = <<>>
    /\ InitPubIdle
    /\ InitCodecIdle
    /\ backend \in Backends

NextFactory ==
    \/ CreateAnalysisService
    \/ CreateJobService
    \/ Tick
    \/ \E h \in DOMAIN objs, s \in StoreStatuses : Stored(h) /\ SetStatus(h, s)
    \/ \E h \in DOMAIN objs : Stored(h) /\ StoreAnalysis(h)
    \/ \E id \in AnalysisIds : GetAnalysis(id)
    \/ \E id \in AnalysisIds, s \in StoreStatuses : UpdateAnalysisStatus(id, s)
    \/ \E j \in DOMAIN jobs : StoreJob(j)
    \/ \E id \in JobIds : GetJob(id)
    \/ \E id \in JobIds, s \in StoreStatuses : UpdateJobStatus(id, s)

SpecFactory == InitFactory /\ [][NextFactory]_vars

(***************************************************************************)
(* Properties of the metadata store                                        *)
(***************************************************************************)
\* C4: a status written by update_analysis_status(id, s) is not lost to a
\* store_analysis of a record that was read by get_analysis(id) before the
\* update: once both have completed the stored status is s.
C4_StatusNotLost ==
    [][(StoreAnalysisRet /\ raced # <<>>) => table'[ret.obj[1].id].status = raced[1]]_vars

OtherFields(item) == [item EXCEPT !.status = <<>>, !.updated_at = <<>>]

\* C5: update_analysis_status(id, s) issues one update_item and nothing else;
\* under id only status and updated_at change, every other attribute of the
\* item and every item under another id stay as they were.
C5_UpdateStatusFrame ==
    [][\A id \in AnalysisIds, s \in StoreStatuses :
          UpdateAnalysisStatus(id, s) =>
             /\ dbLog' = <<Call("update_item", id)>>
             /\ DOMAIN table' = DOMAIN table \cup {id}
             /\ \A k \in DOMAIN table \ {id} : table'[k] = table[k]
             /\ id \in DOMAIN table => OtherFields(table'[id]) = OtherFields(table[id])
             /\ table'[id].status = s
             /\ table'[id].updated_at = isoformat(now)
             /\ jobTable' = jobTable]_vars

\* an update_item has just rewritten the status of a fully populated item
\* while another item is stored
C5_Witness ==
    /\ dbLog = <<Call("update_item", ULID(1))>>
    /\ DOMAIN table = {ULID(1), NeverStoredId}
    /\ table[ULID(1)].status = FAILED
    /\ table[ULID(1)].fire_metadata # <<>>
    /\ table[ULID(1)].raw_raster_path = RasterPath
    /\ table[ULID(1)].created_at = isoformat(0)
    /\ table[ULID(1)].updated_at = isoformat(1)

\* what store_analysis(a) must leave under a.id
ReflectsAnalysis(item, a) ==
    /\ item.analysis_id = a.id
    /\ item.status = a.status
    /\ item.generator_type = a.generator_type
    /\ item.created_at = a.created_at
    /\ Truthy(a.raw_raster_path) => item.raw_raster_path = a.raw_raster_path
    /\ Truthy(a.published_dnbr_raster_url) => item.published_dnbr_raster_url = a.published_dnbr_raster_url
    /\ Truthy(a.published_vector_url) => item.published_vector_url = a.published_vector_url
    /\ (item.fire_metadata # <<>>) <=> (a.fire_metadata # <<>>)

StoreAnalysisUpsert(a) ==
    /\ DOMAIN table' = DOMAIN table \cup {a.id}
    /\ \A k \in DOMAIN table \ {a.id} : table'[k] = table[k]
    /\ ReflectsAnalysis(table'[a.id], a)
    /\ table'[a.id].updated_at = isoformat(now)
    /\ lastStored = <<a>> => table'[a.id] = [table[a.id] EXCEPT !.updated_at = isoformat(now)]

StoreJobUpsert(j) ==
    LET id == jobs[j].id IN
    /\ DOMAIN jobTable' = DOMAIN jobTable \cup {id}
    /\ \A k \in DOMAIN jobTable \ {id} : jobTable'[k] = jobTable[k]
    /\ jobTable'[id].job_id = id
    /\ jobTable'[id].generator_type = jobs[j].generator_type
    /\ jobTable'[id].created_at = jobs[j].created_at
    /\ jobTable'[id].analysis_count = <<ToString(Len(jobs[j].analyses))>>
    /\ Len(job_item_analyses(jobTable'[id])) = Len(jobs[j].analyses)
    /\ \A i \in DOMAIN jobs[j].analyses :
          job_item_analyses(jobTable'[id])[i].status = objs[jobs[j].analyses[i]].status
    /\ jobTable'[id].updated_at = isoformat(now)
    /\ lastStoredJob = <<[job |-> jobs[j], heap |-> objs]>> =>
          jobTable'[id] = [jobTable[id] EXCEPT !.updated_at = isoformat(now)]

\* C6: store is an upsert keyed by the record's id: it adds or replaces the
\* one item under that id and touches no other, the item reflects the record
\* just stored, updated_at is the clock reading of the call, and storing an
\* unchanged record again changes nothing but updated_at (store_analysis and
\* store_job alike).
C6_StoreUpsert ==
    [][/\ \A h \in DOMAIN objs : StoreAnalysis(h) => StoreAnalysisUpsert(objs[h])
       /\ StoreAnalysisRet => StoreAnalysisUpsert(ret.obj[1])
       /\ \A j \in DOMAIN jobs : StoreJob(j) => StoreJobUpsert(j)]_vars

\* a changed record has been stored again at a later clock reading, beside
\* an item under another id
C6_Witness ==
    /\ dbLog = <<Call("put_item", ULID(1))>>
    /\ DOMAIN table = {ULID(1), NeverStoredId}
    /\ lastStored # <<>>
    /\ table[ULID(1)].status = FAILED
    /\ table[ULID(1)].created_at = isoformat(0)
    /\ table[ULID(1)].updated_at = isoformat(1)

SameAnalysis(a, b) ==
    /\ a.id = b.id
    /\ a.status = b.status
    /\ a.generator_type = b.generator_type
    /\ a.created_at = b.created_at
    /\ a.fire_metadata = b.fire_metadata
    /\ a.raw_raster_path = b.raw_raster_path
    /\ a.source_vector_url = b.source_vector_url
    /\ a.published_dnbr_raster_url = b.published_dnbr_raster_url
    /\ a.published_vector_url = b.published_vector_url

\* C7: get_analysis(a.id) right after store_analysis(a) returns a record equal
\* to a in id, status, generator type, created_at, fire metadata and every
\* location field; an absent location comes back absent.
C7_StoreGetRoundTrip ==
    [][\A id \in AnalysisIds :
          (GetAnalysis(id) /\ lastStored # <<>> /\ lastStored[1].id = id) =>
             (ret'.kind = "obj" /\ SameAnalysis(ret'.obj[1], lastStored[1]))]_vars

\* C8: get of an id under which the backend holds no item returns None, does
\* not raise and leaves both tables as they were (get_analysis and get_job).
C8_GetAbsent ==
    [][/\ \A id \in AnalysisIds :
            (GetAnalysis(id) /\ id \notin DOMAIN table) =>
               (ret'.kind = "None" /\ ret'.obj = <<>> /\ table' = table /\ jobTable' = jobTable)
       /\ \A id \in JobIds :
            (GetJob(id) /\ id \notin DOMAIN jobTable) =>
               (ret'.kind = "None" /\ ret'.job = <<>> /\ table' = table /\ jobTable' = jobTable)]_vars

\* get_analysis of the id that was never stored has returned None while
\* another analysis is stored
C8_Witness ==
    /\ ret.op = "get_analysis" /\ ret.kind = "None" /\ ret.id = NeverStoredId
    /\ dbLog = <<Call("get_item", NeverStoredId)>>
    /\ DOMAIN table = {ULID(1)}

(***************************************************************************)
(* Properties of publish_analysis, checked under SpecPublish               *)
(***************************************************************************)
Last(seq) == seq[Len(seq)]
StartsWith(seq, prefix) ==
    /\ Len(prefix) <= Len(seq)
    /\ SubSeq(seq, 1, Len(prefix)) = prefix
Urls(a) == <<a.published_dnbr_raster_url, a.published_vector_url>>
Succeeded(c) == pub[c].pc = "done" /\ pub[c].result.kind = "urls"
Keys(c) == {pub[c].calls[i].key : i \in DOMAIN pub[c].calls}

\* C1: publish_analysis of an analysis whose status is not COMPLETED raises
\* the status ValueError, has issued no upload_file and no put_object, and
\* leaves the bucket and the analysis (its published URLs included) as they were.
C1_NotCompletedRejected ==
    [][\A c \in Callers, h \in DOMAIN objs :
          (PublishBegin(c, h) /\ objs[h].status # COMPLETED) =>
             /\ pub'[c].pc = "done"
             /\ pub'[c].result = Err("ValueError", "status")
             /\ pub'[c].calls = <<>>
             /\ s3' = s3
             /\ Urls(objs'[h]) = Urls(objs[h])]_vars

\* an analysis that was published, then left COMPLETED, is refused and keeps its URLs
C1_Witness ==
    \E c \in Callers :
        /\ pub[c].pc = "done"
        /\ pub[c].result = Err("ValueError", "status")
        /\ objs[pub[c].h].status = FAILED
        /\ objs[pub[c].h].published_dnbr_raster_url # None

\* the preconditions in the order the code tests them
Preconditions(a, files) ==
    << [fails |-> a.status # COMPLETED, kind |-> "ValueError", msg |-> "status"],
       [fails |-> a.fire_metadata = <<>> \/ a.fire_metadata[1].aoi_id = <<>>,
        kind |-> "ValueError", msg |-> "aoi_id"],
       [fails |-> a.raw_raster_path \in {None, <<>>}, kind |-> "ValueError", msg |-> "raw_raster_url"],
       [fails |-> a.source_vector_url \in {None, <<>>}, kind |-> "ValueError",
        msg |-> "source_vector_url"],
       [fails |-> a.raw_raster_path \notin files, kind |-> "FileNotFoundError",
        msg |-> "raw_raster_url"],
       [fails |-> a.source_vector_url \notin files, kind |-> "FileNotFoundError",
        msg |-> "source_vector_url"] >>

\* the four preconditions in the order of the specification
SpecPreconditions(a, files) ==
    << Preconditions(a, files)[1],
       Preconditions(a, files)[2],
       [fails |-> Preconditions(a, files)[3].fails \/ Preconditions(a, files)[5].fails,
        kind |-> "any", msg |-> "raw_raster_url"],
       [fails |-> Preconditions(a, files)[4].fails \/ Preconditions(a, files)[6].fails,
        kind |-> "any", msg |-> "source_vector_url"] >>

Failing(checks) == {i \in DOMAIN checks : checks[i].fails}
FirstFailing(checks) == CHOOSE i \in Failing(checks) : \A j \in Failing(checks) : i <= j

\* what a call that ends in PublishBegin has done when checks is the order tested
ReportsFirst(c, h, checks) ==
    IF Failing(checks) # {}
    THEN /\ pub'[c].pc = "done"
         /\ pub'[c].result.msg = checks[FirstFailing(checks)].msg
         /\ checks[FirstFailing(checks)].kind \in {"any", pub'[c].result.kind}
         /\ pub'[c].result.kind \in {"ValueError", "FileNotFoundError"}
         /\ pub'[c].cog = None
         /\ pub'[c].calls = <<>>
         /\ s3' = s3
    ELSE pub'[c].result.kind \notin {"ValueError", "FileNotFoundError"}

\* C2 as claimed: the error reported is that of the first failing precondition
\* in the order status, aoi id, raster present and reachable, vector present
\* and reachable.
C2_ClaimedOrder ==
    [][\A c \in Callers, h \in DOMAIN objs :
          PublishBegin(c, h) => ReportsFirst(c, h, SpecPreconditions(objs[h], fs))]_vars

\* C2 (amended): the error reported is that of the first failing precondition
\* in the order status, aoi id, raster location present, vector location
\* present, raster file exists, vector file exists; and no COG is generated
\* and nothing is written to the bucket unless all of them pass.
C2_CheckOrder ==
    [][\A c \in Callers, h \in DOMAIN objs :
          PublishBegin(c, h) => ReportsFirst(c, h, Preconditions(objs[h], fs))]_vars

\* the raster location is set but no such file exists, the vector location
\* is absent, and the call reported the absent vector location
C2_Witness ==
    \E c \in Callers :
        /\ pub[c].pc = "done"
        /\ objs[pub[c].h].status = COMPLETED
        /\ objs[pub[c].h].raw_raster_path = RasterPath
        /\ RasterPath \notin fs
        /\ objs[pub[c].h].source_vector_url = None
        /\ pub[c].result = Err("ValueError", "source_vector_url")

\* C3: when an upload_file or put_object of publish_analysis fails, the call
\* ends with RuntimeError at that write and leaves the analysis as it was; and
\* the published URLs of an analysis change only in a call all four of whose
\* writes succeeded.
C3_WriteFailureAborts ==
    [][/\ \A c \in Callers :
            (pub'[c].calls # pub[c].calls /\ pub'[c].calls # <<>> /\ ~Last(pub'[c].calls).ok) =>
               /\ pub'[c].pc = "done"
               /\ pub'[c].result.kind = "RuntimeError"
               /\ \A i \in DOMAIN pub[c].calls : pub[c].calls[i].ok
               /\ objs' = objs
       /\ \A h \in DOMAIN objs :
            Urls(objs'[h]) # Urls(objs[h]) =>
               \E c \in Callers :
                   /\ pub[c].h = h
                   /\ pub[c].pc = "finish"
                   /\ pub'[c].pc = "done"
                   /\ Len(pub[c].calls) = 4
                   /\ \A i \in DOMAIN pub[c].calls : pub[c].calls[i].ok]_vars

\* the collection write of a first publish failed: RuntimeError, URLs still None
C3_Witness ==
    \E c \in Callers :
        /\ pub[c].pc = "done"
        /\ pub[c].result.kind = "RuntimeError"
        /\ Len(pub[c].calls) = 4
        /\ ~Last(pub[c].calls).ok
        /\ Urls(objs[pub[c].h]) = <<None, None>>

\* the scope of an analysis as the specification words it
ScopeId(a) == IF a.job_id # None THEN a.job_id ELSE a.id

\* C9: every key publish_analysis uploads a file under starts with
\* jobs/<scopeId>/<aoiId>/, the STAC item key is stac/items/<scopeId>/<aoiId>.json,
\* and the item and the collection written carry the same scopeId, which is the
\* analysis's job id when it has one and its own id otherwise.
C9_KeysUnderScope ==
    \A c \in Callers :
        pub[c].calls # <<>> =>
            LET a == objs[pub[c].h]
                aoi == a.fire_metadata[1].aoi_id
            IN  \A i \in DOMAIN pub[c].calls :
                    LET call == pub[c].calls[i]
                    IN  /\ i \in {1, 2} =>
                              /\ call.call = "upload_file"
                              /\ StartsWith(call.key, <<"jobs/">> \o ScopeId(a) \o <<"/">> \o aoi \o <<"/">>)
                        /\ i = 3 =>
                              /\ call.key = <<"stac/items/">> \o ScopeId(a) \o <<"/">> \o aoi \o <<".json">>
                              /\ call.job_id = ScopeId(a)
                        /\ i = 4 =>
                              /\ call.key = collection_key
                              /\ call.job_id = ScopeId(a)

\* one analysis without a job and one owned by a job have both been published
C9_Witness ==
    \E c, d \in Callers :
        /\ Succeeded(c) /\ objs[pub[c].h].job_id = None
        /\ Succeeded(d) /\ objs[pub[d].h].job_id # None
        /\ Len(pub[c].calls) = 4 /\ Len(pub[d].calls) = 4

\* C10: two publishes of the same analysis that both returned wrote the same
\* set of keys and returned the URLs now recorded on the analysis; and once a
\* publish of an analysis has returned, no write of another publish of it adds
\* a key to the bucket.
C10_RepublishSameKeys ==
    /\ [](\A c, d \in Callers :
            (Succeeded(c) /\ Succeeded(d) /\ pub[c].h = pub[d].h) =>
               /\ Keys(c) = Keys(d)
               /\ pub[c].result.urls = pub[d].result.urls
               /\ Urls(objs[pub[c].h]) = pub[c].result.urls)
    /\ [][\A c, d \in Callers :
            (Succeeded(d) /\ pub[c].h = pub[d].h /\ c # d /\ pub'[c] # pub[c]) =>
               DOMAIN s3' = DOMAIN s3]_vars

\* two callers have published the same analysis
C10_Witness ==
    \E c, d \in Callers :
        /\ c # d
        /\ Succeeded(c) /\ Succeeded(d)
        /\ pub[c].h = pub[d].h
        /\ Keys(c) \subseteq DOMAIN s3
        /\ Cardinality(Keys(c)) = 4

\* the collection pointer differs between two states of the bucket
PointerRewritten(before, after) ==
    /\ collection_key \in DOMAIN after
    /\ collection_key \notin DOMAIN before \/ after[collection_key] # before[collection_key]

\* C12: a collection write that succeeds leaves the one collection object
\* pointing at the scope of the publish that made it, whatever it pointed at
\* before; no other step changes or removes the object; and every publish
\* that returned has made that write.
C12_CollectionLastWriter ==
    /\ [](\A c \in Callers :
            Succeeded(c) =>
               /\ Len(pub[c].calls) = 4
               /\ pub[c].calls[4].key = collection_key
               /\ pub[c].calls[4].ok
               /\ collection_key \in DOMAIN s3)
    /\ [][/\ \A c \in Callers :
               (UpdateStacCollection(c) /\ Last(pub'[c].calls).ok) =>
                  /\ collection_key \in DOMAIN s3'
                  /\ s3'[collection_key] = stac_collection(ScopeId(objs[pub[c].h]))
          /\ PointerRewritten(s3, s3') =>
               \E c \in Callers : UpdateStacCollection(c) /\ Last(pub'[c].calls).ok
          /\ collection_key \in DOMAIN s3 => collection_key \in DOMAIN s3']_vars

\* two publishes of analyses of different scopes have returned and the
\* pointer names one of the two scopes, the other having been overwritten
C12_Witness ==
    \E c, d \in Callers :
        /\ Succeeded(c) /\ Succeeded(d)
        /\ ScopeId(objs[pub[c].h]) # ScopeId(objs[pub[d].h])
        /\ s3[collection_key].job_id = ScopeId(objs[pub[d].h])

(***************************************************************************)
(* Properties of publishing and storing, checked under SpecPublishStore    *)
(***************************************************************************)
StoredUrls(item) == <<item.published_dnbr_raster_url, item.published_vector_url>>

\* C11: no step of publish_analysis calls the metadata store or changes a
\* table, so after a publish the stored item still carries the URLs it had;
\* the URLs of a stored item change only in a store_analysis of that analysis.
C11_PublishLeavesStore ==
    [][/\ pub' # pub => (table' = table /\ jobTable' = jobTable /\ dbLog' = dbLog)
       /\ \A id \in DOMAIN table :
            StoredUrls(table'[id]) # StoredUrls(table[id]) =>
               \E h \in DOMAIN objs :
                   /\ objs[h].id = id
                   /\ StoreAnalysis(h)
                   /\ StoredUrls(table'[id]) = Urls(objs[h])]_vars

\* a stored analysis has been published and its item still has no URLs
C11_Witness ==
    \E c \in Callers :
        /\ Succeeded(c)
        /\ objs[pub[c].h].id \in DOMAIN table
        /\ Urls(objs[pub[c].h]) = pub[c].result.urls
        /\ StoredUrls(table[objs[pub[c].h].id]) = <<<<>>, <<>>>>

(***************************************************************************)
(* Properties of the constructors and conversions, checked under SpecCodec *)
(***************************************************************************)
\* C13: from_json(to_json(a)) returns an analysis equal to a in id, generator
\* type, status, created_at, fire metadata and all four locations (raw
\* raster, source vector, published raster URL, published vector URL).
C13_JsonRoundTrip ==
    [][JsonRoundTrip => (conv'.kind = "ok" /\ SameAnalysis(conv'.an[1], conv.an[1]))]_vars

ProviderUnknown(record) ==
    /\ json_loads(record).fire_metadata # <<>>
    /\ Get(json_loads(record).fire_metadata[1].provider) # <<"sa_fire">>

\* C14 as claimed: from_json of a record whose fire metadata names a provider
\* other than sa_fire, or names none, raises ValueError.
C14_UnknownProviderRaises ==
    [][conv.an # <<>> =>
          \A record \in ForeignRecords(conv.an[1]) :
              (Deserialize(record) /\ ProviderUnknown(record)) => conv'.kind = "ValueError"]_vars

\* C14 (amended): from_json of a record whose fire metadata is a non-empty
\* object that names a provider other than sa_fire, or names none, raises
\* ValueError and returns no analysis; fire metadata that is the empty object
\* is read as no fire metadata.
C14_NonEmptyUnknownProviderRaises ==
    [][conv.an # <<>> =>
          \A record \in ForeignRecords(conv.an[1]) :
              (Deserialize(record) /\ ProviderUnknown(record)) =>
                 IF json_loads(record).fire_metadata[1] = EmptyDict
                 THEN conv'.kind = "ok" /\ conv'.an[1].fire_metadata = <<>>
                 ELSE conv'.kind = "ValueError" /\ conv'.an = <<>>]_vars

\* a record whose fire metadata names no provider has been refused
C14_Witness ==
    /\ conv.op = "from_json_record"
    /\ conv.kind = "ValueError"
    /\ conv.an = <<>>

\* C15: from_dict(to_dict(m)) equals m in incident type, fire date, provider,
\* raw properties and aoi id.
C15_DictRoundTrip ==
    [][DictRoundTrip =>
          /\ conv'.meta[1].incident_type = conv.meta[1].incident_type
          /\ conv'.meta[1].fire_date = conv.meta[1].fire_date
          /\ to_dict(conv'.meta[1]).provider = to_dict(conv.meta[1]).provider
          /\ conv'.meta[1].raw_properties = conv.meta[1].raw_properties
          /\ conv'.meta[1].aoi_id = conv.meta[1].aoi_id]_vars

\* metadata with a typed incident, a date and a numeric incident number has
\* come back from from_dict
C15_Witness ==
    /\ conv.op = "from_dict"
    /\ conv.meta[1].incident_type # <<>>
    /\ conv.meta[1].raw_properties.INCIDENTNU = PyInt(<<"1", "2", "3", "4", "5">>)
    /\ conv.meta[1].aoi_id = <<"1", "2", "3", "4", "5">>

C17_IncidentNumberIsAoiId ==
    [][(CreateMetadata /\ feature.raw_properties.INCIDENTNU # Missing) =>
          conv'.meta[1].aoi_id = feature.raw_properties.INCIDENTNU]_vars

\* C17 (amended): when the raw properties hold an INCIDENTNU that is not
\* null, not "" and not 0, the aoi id is that value as text: the string
\* itself, or the digits of the number; incident type and fire date play no part.
C17_TruthyIncidentNumberIsAoiId ==
    [][(CreateMetadata /\ feature.raw_properties.INCIDENTNU \notin {Missing, None, <<>>, PyInt(<<"0">>)}) =>
          conv'.meta[1].aoi_id =
             IF Head(feature.raw_properties.INCIDENTNU) = "<int>"
             THEN Tail(feature.raw_properties.INCIDENTNU)
             ELSE feature.raw_properties.INCIDENTNU]_vars

\* metadata has been built from a record with an incident number, an
\* incident type that needs sanitizing and a date that does not parse
C17_Witness ==
    /\ conv.op = "SAFireMetadata"
    /\ feature.raw_properties.INCIDENTNU = <<"2", "0", "1", "9", "1", "2", "0", "3", "6">>
    /\ \E i \in DOMAIN feature.incident_type : ~IsAlnum(feature.incident_type[i])
    /\ ~StrptimeOK(feature.fire_date)
    /\ conv.meta[1].aoi_id = feature.raw_properties.INCIDENTNU

\* yyyymmdd of a date written d/m/yyyy
Yyyymmdd(date) ==
    LET parts == SplitSlash(date)
    IN  parts[3] \o (IF Len(parts[2]) = 1 THEN <<"0">> ELSE <<>>) \o parts[2]
                 \o (IF Len(parts[1]) = 1 THEN <<"0">> ELSE <<>>) \o parts[1]

\* C18 as claimed: without an incident number the aoi id is the lower-cased
\* incident type with every run of non-alphanumeric characters replaced by
\* one "_", then "_", then yyyymmdd of the fire date.
C18_SanitizedRuns ==
    [][(CreateMetadata /\ feature.raw_properties.INCIDENTNU = Missing /\ StrptimeOK(feature.fire_date)) =>
          conv'.meta[1].aoi_id =
             SubNonAlnumRuns(Lower(feature.incident_type)) \o <<"_">> \o Yyyymmdd(feature.fire_date)]_vars

\* C18 (amended): without an incident number (absent, null, "" or 0) and with
\* a fire date that parses as d/m/yyyy, the aoi id is the lower-cased incident
\* type with every single non-alphanumeric character replaced by "_" (a run
\* of n such characters gives n underscores), then "_", then yyyymmdd.
C18_SanitizedCharacters ==
    [][(CreateMetadata /\ feature.raw_properties.INCIDENTNU \in {Missing, None, <<>>, PyInt(<<"0">>)}
                       /\ StrptimeOK(feature.fire_date)) =>
          LET aoi == conv'.meta[1].aoi_id
              n == Len(feature.incident_type)
          IN  /\ Len(aoi) = n + 9
              /\ \A i \in 1..n :
                    aoi[i] = IF IsAlnum(feature.incident_type[i])
                             THEN LowerChar(feature.incident_type[i]) ELSE "_"
              /\ aoi[n + 1] = "_"
              /\ SubSeq(aoi, n + 2, n + 9) = Yyyymmdd(feature.fire_date)]_vars

\* metadata has been built from an incident type with two spaces in a row
\* and a one-digit day and month: both spaces became underscores
C18_Witness ==
    /\ conv.op = "SAFireMetadata"
    /\ feature.raw_properties.INCIDENTNU = Missing
    /\ feature.incident_type = <<"B", "u", "s", "h", " ", " ", "F", "i", "r", "e">>
    /\ feature.fire_date = <<"3", "/", "1", "/", "2", "0", "2", "0">>
    /\ conv.meta[1].aoi_id = <<"b", "u", "s", "h", "_", "_", "f", "i", "r", "e", "_",
                               "2", "0", "2", "0", "0", "1", "0", "3">>

(***************************************************************************)
(* Properties of the life of an analysis, checked under SpecLifecycle      *)
(***************************************************************************)
\* C19: the id and created_at of an analysis are those its constructor gave
\* it: set_status, add_analysis, the steps of publish_analysis,
\* store_analysis and update_analysis_status leave both unchanged on every
\* analysis, and a newly constructed analysis has an id no earlier analysis
\* (and no job) has, so that no two analyses share an id.
C19_IdentityFixed ==
    /\ [](\A g, h \in DOMAIN objs : g # h => objs[g].id # objs[h].id)
    /\ [][/\ \A h \in DOMAIN objs :
                /\ h \in DOMAIN objs'
                /\ objs'[h].id = objs[h].id
                /\ objs'[h].created_at = objs[h].created_at
          /\ NewAnalysis =>
                /\ Len(objs') = Len(objs) + 1
                /\ Last(objs').created_at = isoformat(now)
                /\ \A h \in DOMAIN objs : Last(objs').id # objs[h].id
                /\ \A j \in DOMAIN jobs : Last(objs').id # jobs[j].id]_vars

\* two analyses constructed at different times, the first added to the job,
\* published and moved on from COMPLETED: ids and creation times still differ
C19_Witness ==
    /\ Len(objs) = 2
    /\ objs[1].id = ULID(2)
    /\ objs[2].id = ULID(3)
    /\ objs[1].created_at = isoformat(0)
    /\ objs[2].created_at # objs[1].created_at
    /\ objs[1].job_id = jobs[1].id
    /\ objs[1].published_dnbr_raster_url # None
    /\ objs[1].status = FAILED

C21_StatusInEnum ==
    conv.an # <<>> => conv.an[1].status \in {PENDING, RUNNING, COMPLETED, FAILED}

(***************************************************************************)
(* Properties of jobs, checked under SpecJobs                              *)
(***************************************************************************)
Children(j) == jobs[j].analyses
ChildStatuses(j) == {objs[Children(j)[i]].status : i \in DOMAIN Children(j)}

\* C22: after any add_analysis calls on the jobs (the same analysis added to
\* two jobs included) and any set_status calls, every analysis in a job's
\* list has that job's id as its job id, and add_analysis appends: the list
\* holds the analyses in the order they were added.
C22_ChildrenOwned ==
    /\ [](\A j \in DOMAIN jobs : \A i \in DOMAIN Children(j) : objs[Children(j)[i]].job_id = jobs[j].id)
    /\ [][\A j \in DOMAIN jobs, h \in DOMAIN objs :
             AddAnalysis(j, h) => jobs'[j].analyses = Append(jobs[j].analyses, h)]_vars

\* C23: is_complete() answers True exactly when every child currently has
\* status COMPLETED: True for a job without children, False as soon as one
\* child is PENDING, RUNNING or FAILED.
C23_IsComplete ==
    [][\A j \in DOMAIN jobs :
          IsComplete(j) =>
             /\ ret'.kind = "True" <=> ChildStatuses(j) \subseteq {COMPLETED}
             /\ ret'.kind = "False" <=> ChildStatuses(j) \cap {PENDING, RUNNING, FAILED} # {}
             /\ Children(j) = <<>> => ret'.kind = "True"]_vars

\* is_complete() has answered True for a job without children while the
\* other job has a completed and a running child
C23_Witness ==
    /\ ret.op = "is_complete"
    /\ ret.kind = "True"
    /\ \E j, k \in DOMAIN jobs :
          /\ jobs[j].id = ret.id
          /\ Children(j) = <<>>
          /\ ChildStatuses(k) = {COMPLETED, RUNNING}

\* C24: is_failed() answers True exactly when at least one child currently
\* has status FAILED, and no job is ever both complete and failed.
C24_IsFailed ==
    /\ [](\A j \in DOMAIN jobs : ~(is_complete(jobs[j], objs) /\ is_failed(jobs[j], objs)))
    /\ [][\A j \in DOMAIN jobs :
             IsFailed(j) => (ret'.kind = "True" <=> FAILED \in ChildStatuses(j))
                            /\ ret'.kind \in {"True", "False"}]_vars

\* is_failed() has answered True for a job with one completed and one failed
\* child, which is not complete
C24_Witness ==
    /\ ret.op = "is_failed"
    /\ ret.kind = "True"
    /\ \E j \in DOMAIN jobs :
          /\ jobs[j].id = ret.id
          /\ Len(Children(j)) = 2
          /\ ChildStatuses(j) = {COMPLETED, FAILED}
          /\ ~is_complete(jobs[j], objs)

\* the children of a list, in its order, whose status is the given one
RECURSIVE Keep(_, _)
Keep(children, status) ==
    IF children = <<>> THEN <<>>
    ELSE (IF objs[Head(children)].status = status THEN <<Head(children)>> ELSE <<>>)
         \o Keep(Tail(children), status)

\* C25: at any point of any interleaving of add_analysis and set_status,
\* get_completed_analyses / get_pending_analyses / get_failed_analyses return
\* the children whose status is now COMPLETED / PENDING / FAILED, in the
\* order they were added, and the call changes neither the job nor any analysis.
C25_ViewsCurrent ==
    [][\A j \in DOMAIN jobs :
          /\ GetCompletedAnalyses(j) => ret'.children = Keep(Children(j), COMPLETED)
          /\ GetPendingAnalyses(j) => ret'.children = Keep(Children(j), PENDING)
          /\ GetFailedAnalyses(j) => ret'.children = Keep(Children(j), FAILED)
          /\ (GetCompletedAnalyses(j) \/ GetPendingAnalyses(j) \/ GetFailedAnalyses(j)) =>
                (jobs' = jobs /\ objs' = objs)]_vars

\* get_failed_analyses() has returned both children of a job, the second
\* analysis constructed having been added first
C25_Witness ==
    /\ ret.op = "get_failed_analyses"
    /\ ret.children = <<2, 1>>
    /\ \E j \in DOMAIN jobs : jobs[j].id = ret.id /\ Children(j) = <<2, 1>>

(***************************************************************************)
(* Properties of JobService, checked under SpecStore                       *)
(***************************************************************************)
JustStoredJob(job_id) == lastStoredJob # <<>> /\ lastStoredJob[1].job.id = job_id

\* C26: get_job(j.id) after store_job(j) returns a job with the id,
\* generator type, created_at and number of children of j, whose children
\* come in the same order with the same status, aoi id and job id, and with
\* the ids they had in j.
C26_JobRoundTrip ==
    [][\A id \in JobIds :
          (GetJob(id) /\ JustStoredJob(id)) =>
             LET j == lastStoredJob[1].job
                 heap == lastStoredJob[1].heap
             IN  /\ ret'.kind = "obj"
                 /\ ret'.job[1].id = j.id
                 /\ ret'.job[1].generator_type = j.generator_type
                 /\ ret'.job[1].created_at = j.created_at
                 /\ Len(ret'.children) = Len(j.analyses)
                 /\ \A i \in DOMAIN j.analyses :
                       /\ ret'.children[i].status = heap[j.analyses[i]].status
                       /\ get_aoi_id(ret'.children[i]) = get_aoi_id(heap[j.analyses[i]])
                       /\ get_job_id(ret'.children[i]) = get_job_id(heap[j.analyses[i]])
                       /\ ret'.children[i].id = heap[j.analyses[i]].id]_vars

StoredStatuses(item) == [i \in DOMAIN job_item_analyses(item) |-> job_item_analyses(item)[i].status]

\* C29: update_job_status(job_id, status) makes one update_item that changes
\* nothing of the stored job item but updated_at, whatever status is passed,
\* and touches no other item; a get_job afterwards returns the children with
\* the statuses the item holds, which are those store_job last wrote.
C29_UpdateJobStatusIgnoresStatus ==
    [][\A id \in JobIds :
          /\ \A s \in StoreStatuses :
                (UpdateJobStatus(id, s) /\ id \in DOMAIN jobTable) =>
                   /\ jobTable' = [jobTable EXCEPT ![id].updated_at = isoformat(now)]
                   /\ StoredStatuses(jobTable'[id]) = StoredStatuses(jobTable[id])
                   /\ table' = table
                   /\ dbLog' = <<Call("update_item", id)>>
          /\ (GetJob(id) /\ id \in DOMAIN jobTable) =>
                /\ ret'.kind = "obj"
                /\ [i \in DOMAIN ret'.children |-> ret'.children[i].status] = StoredStatuses(jobTable[id])]_vars

\* get_job has returned the child as COMPLETED, the status store_job wrote,
\* after an update_job_status at a later clock reading
C29_Witness ==
    /\ ret.op = "get_job"
    /\ ret.kind = "obj"
    /\ dbLog = <<Call("get_item", ULID(3))>>
    /\ lastStoredJob = <<>>
    /\ ULID(3) \in DOMAIN jobTable
    /\ jobTable[ULID(3)].updated_at = isoformat(1)
    /\ jobTable[ULID(3)].created_at = isoformat(0)
    /\ StoredStatuses(jobTable[ULID(3)]) = <<COMPLETED>>
    /\ ret.children[1].status = COMPLETED

(***************************************************************************)
(* Properties of the service factories, checked under SpecFactory          *)
(***************************************************************************)
ServiceCalls == {"put_item", "get_item", "update_item", "scan"}

\* C27: with the credentials missing or the table absent,
\* create_analysis_service and create_job_service raise and return no
\* service, the one backend call made being the describe_table of the
\* factory: no put_item, get_item, update_item or scan is ever issued and
\* both tables stay untouched.
C27_FailFast ==
    /\ [](backend # Available =>
             /\ service = "none"
             /\ \A i \in DOMAIN dbLog : dbLog[i].call \notin ServiceCalls
             /\ table = EmptyFn
             /\ jobTable = EmptyFn
             /\ ret.kind \notin {"service", "obj", "None"})
    /\ [][/\ (CreateAnalysisService /\ backend \in {NoCredentials, TableNotFound}) =>
                (ret'.kind = "ValueError" /\ service' = "none")
          /\ (CreateJobService /\ backend \in {NoCredentials, TableNotFound}) =>
                (ret'.kind = "RuntimeError" /\ service' = "none")]_vars

\* create_job_service has raised against an endpoint without the table
C27_Witness ==
    /\ backend = TableNotFound
    /\ ret.op = "create_job_service"
    /\ ret.kind = "RuntimeError"
    /\ service = "none"
    /\ dbLog = <<Call("describe_table", None)>>

(***************************************************************************)
(* Properties of the publisher's writes and URLs, checked under SpecPublish *)
(***************************************************************************)
CallNames(c) == [i \in DOMAIN pub[c].calls |-> pub[c].calls[i].call]
Url(key) == <<"s3://">> \o bucket_name \o <<"/">> \o key

\* C28: a publish_analysis that returned has made exactly four writes, all
\* successful, in the order raster upload_file, vector upload_file, STAC item
\* put_object, collection put_object; the URLs it returned are
\* s3://<bucket>/<key> of the raster and vector keys it uploaded and are the
\* asset hrefs of the STAC item under the key it put; and the published URLs
\* of an analysis are set only by the step that follows the four writes.
C28_FourWritesThenUrls ==
    /\ [](\A c \in Callers :
            Succeeded(c) =>
               LET calls == pub[c].calls IN
               /\ CallNames(c) = <<"upload_file", "upload_file", "put_object", "put_object">>
               /\ \A i \in DOMAIN calls : calls[i].ok
               /\ calls[1].key = pub[c].raster_key
               /\ calls[2].key = pub[c].vector_key
               /\ calls[3].key = stac_item_key(pub[c].job_id, pub[c].aoi_id)
               /\ calls[4].key = collection_key
               /\ pub[c].result.urls = <<Url(calls[1].key), Url(calls[2].key)>>
               /\ s3[calls[3].key].kind = "item"
               /\ s3[calls[3].key].dnbr_href = pub[c].result.urls[1]
               /\ s3[calls[3].key].aoi_href = pub[c].result.urls[2])
    /\ [][\A h \in DOMAIN objs :
             Urls(objs'[h]) # Urls(objs[h]) =>
                \E c \in Callers :
                   /\ Finish(c)
                   /\ pub[c].h = h
                   /\ Len(pub[c].calls) = 4
                   /\ \A i \in DOMAIN pub[c].calls : pub[c].calls[i].ok
                   /\ Urls(objs'[h]) = <<Url(pub[c].calls[1].key), Url(pub[c].calls[2].key)>>]_vars

\* a publish of the analysis owned by a job has returned its two URLs, which
\* are now those of the analysis, with all four objects in the bucket
C28_Witness ==
    \E c \in Callers :
        /\ Succeeded(c)
        /\ objs[pub[c].h].job_id # None
        /\ Urls(objs[pub[c].h]) = pub[c].result.urls
        /\ Keys(c) \subseteq DOMAIN s3
        /\ Len(pub[c].calls) = 4
        /\ s3[collection_key].job_id = objs[pub[c].h].job_id

UrlPrefix(a) == Url(<<"jobs/">> \o ScopeId(a) \o <<"/">> \o a.fire_metadata[1].aoi_id \o <<"/">>)

\* C30: whatever set_status and publish_analysis calls, returning or
\* raising, have been made on an analysis that began without published
\* URLs, its published raster URL and published vector URL are both absent
\* or both set, and when set both start with
\* s3://<bucket>/jobs/<scopeId>/<aoiId>/ for the one scope and aoi id of
\* the analysis.
C30_UrlsTogether ==
    \A h \in DOMAIN objs :
        LET a == objs[h] IN
        \/ Urls(a) = <<None, None>>
        \/ /\ a.published_dnbr_raster_url # None
           /\ a.published_vector_url # None
           /\ a.fire_metadata # <<>>
           /\ StartsWith(a.published_dnbr_raster_url, UrlPrefix(a))
           /\ StartsWith(a.published_vector_url, UrlPrefix(a))
           /\ a.published_dnbr_raster_url # a.published_vector_url

\* the analysis created on its own carries both URLs after a publish that
\* returned and a later set_status(FAILED) followed by a refused publish
C30_Witness ==
    \E c \in Callers :
        /\ pub[c].pc = "done"
        /\ pub[c].result.kind = "ValueError"
        /\ objs[pub[c].h].job_id = None
        /\ objs[pub[c].h].status = FAILED
        /\ objs[pub[c].h].published_dnbr_raster_url # None
        /\ objs[pub[c].h].published_vector_url # None

====
